---- MODULE Spec2Model ----
(***************************************************************************)
(* A model of the Chip8Emu interpreter core: the instruction decoder, the  *)
(* fetch/decode/execute step, the frame buffer with its change feed, the   *)
(* 60 Hz timer task and the keyboard bridge.                               *)
(*                                                                         *)
(* Integers are kept at the width the Rust code gives them.  A 64-bit      *)
(* frame-buffer row is the set of its set bit positions (bit k has value   *)
(* 2^k), because a u64 does not fit the model checker's integers.          *)
(* overflow_checks is the build profile: TRUE for a build with overflow    *)
(* checks (cargo's dev profile), where arithmetic and shift overflow       *)
(* panic, FALSE for a build without them (the release profile), where      *)
(* arithmetic wraps and a shift amount is masked to the operand's width.   *)
(***************************************************************************)
EXTENDS Integers, Sequences, FiniteSets, TLC

VARIABLES
    rom,              \* the program image handed to Chip8Emu::new
    overflow_checks,  \* build profile: do overflows panic
    ram,              \* Memory.mem, as the cells written since construction
    pc,               \* Chip8Emu.pc
    stack,            \* Chip8Emu.stack
    sp,               \* Chip8Emu.sp
    reg,              \* Chip8Emu.reg
    i,                \* Chip8Emu.i
    buffer,           \* Display.buffer
    changes,          \* Display.changes: one channel per subscriber
    pressed_key,      \* Keyboard.pressed_key
    keyq,             \* the keyboard channel: key events sent and not yet received
    drivers,          \* number of live Sender clones handed out by new_driver
    dtime,            \* Timer.dtime
    stime,            \* Timer.stime
    beep,             \* Timer.beep
    status,           \* run loop: "running", "blocked", "halted", "panicked"
    word,             \* step's local: the instruction word last fetched
    inst,             \* step's local: the instruction last decoded
    steps,            \* number of operations the interpreter thread started
    last,             \* the interpreter thread's last operation and its result
    prev,             \* the machine state before an operation applied on its own
    owner,            \* the thread that holds each Mutex of the Timer
    at,               \* where each thread that uses the Timer is in its code
    dhist             \* each counter's last written value and the ticks since

vars == <<rom, overflow_checks, ram, pc, stack, sp, reg, i, buffer, changes,
          pressed_key, keyq, drivers, dtime, stime, beep, status, word, inst,
          steps, last, prev, owner, at, dhist>>

-----------------------------------------------------------------------------
(* Fixed-width arithmetic and bit operations.                              *)

U8(v) == v % 256

U16(v) == v % 65536

RECURSIVE Pow2(_)
Pow2(n) == IF n = 0 THEN 1 ELSE 2 * Pow2(n - 1)

(* v >> s on an unsigned integer. *)
Shr(v, s) == v \div Pow2(s)

(* Bit k of v. *)
Bit(v, k) == Shr(v, k) % 2

RECURSIVE BitAndN(_, _, _)
BitAndN(a, b, n) ==
    IF n = 0 THEN 0
    ELSE (a % 2) * (b % 2) + 2 * BitAndN(a \div 2, b \div 2, n - 1)

RECURSIVE BitOrN(_, _, _)
BitOrN(a, b, n) ==
    IF n = 0 THEN 0
    ELSE (IF a % 2 = 1 \/ b % 2 = 1 THEN 1 ELSE 0)
         + 2 * BitOrN(a \div 2, b \div 2, n - 1)

RECURSIVE BitXorN(_, _, _)
BitXorN(a, b, n) ==
    IF n = 0 THEN 0
    ELSE (((a % 2) + (b % 2)) % 2) + 2 * BitXorN(a \div 2, b \div 2, n - 1)

(* The u8 and u16 operators &, | and ^. *)
And8(a, b) == BitAndN(a, b, 8)

Or8(a, b) == BitOrN(a, b, 8)

Xor8(a, b) == BitXorN(a, b, 8)

(* v & m for a mask m = 2^k - 1 of low bits: the value of the k low bits. *)
Mask(v, m) == v % (m + 1)

-----------------------------------------------------------------------------
(* Instructions.                                                           *)

InstructionType ==
    {"Call", "DispClr", "FlowRet", "FlowJmp", "FlowCall", "CondEqL",
     "CondNoEqL", "CondEqRg", "RegConst", "RegAdd", "Assign", "BitOr",
     "BitAnd", "BitXor", "MathAdd", "MathSub", "BitShiftR", "InvertSub",
     "BitShiftL", "CondNoEqRg", "SetPoint", "FlowJmpV0", "RNG", "DispDraw",
     "CondKey", "CondNotKey", "DelTimrGet", "WaitKey", "DelTimrSet",
     "SndTimrSet", "PointAdd", "PointChar", "BCDStore", "RegDmp", "RegLoad",
     "StopExecution"}

(* Option::None of an operand field; Some(v) is v itself. *)
None == -1

Instruction(t, nnn, nn, n, x, y) ==
    [insttype |-> t, nnn |-> nnn, nn |-> nn, n |-> n, x |-> x, y |-> y]

(* The four nibbles of an instruction word, most significant first. *)
Nibs(w) ==
    <<Shr(w, 12), Mask(Shr(w, 8), 15), Mask(Shr(w, 4), 15), Mask(w, 15)>>

(* The operand fields as decode extracts them. *)
FieldNNN(w) == Mask(w, 4095)

FieldNN(w) == Mask(w, 255)

FieldN(w) == Mask(w, 15)

(* The x field read without its mask: what decode would carry if the       *)
(* `& 0xF` of the second nibble were missing.                              *)
FieldXUnmasked(w) == Shr(w, 8)

FieldX(w) == Mask(Shr(w, 8), 15)

FieldY(w) == Mask(Shr(w, 4), 15)

InstNone(t) == Instruction(t, None, None, None, None, None)

InstNNN(t, w) == Instruction(t, FieldNNN(w), None, None, None, None)

InstXNN(t, w) == Instruction(t, None, FieldNN(w), None, FieldX(w), None)

InstXY(t, w) == Instruction(t, None, None, None, FieldX(w), FieldY(w))

InstX(t, w) == Instruction(t, None, None, None, FieldX(w), None)

InstXYN(t, w) == Instruction(t, None, None, FieldN(w), FieldX(w), FieldY(w))

(* The last nibble the inverted-subtract arm of decode matches on. *)
InvertSubNibble == 231

(* Chip8Emu::decode: the match arms in source order, first match wins. *)
Decode8(w, n3) ==
    IF n3 = 0 THEN InstXY("Assign", w)
    ELSE IF n3 = 1 THEN InstXY("BitOr", w)
    ELSE IF n3 = 2 THEN InstXY("BitAnd", w)
    ELSE IF n3 = 3 THEN InstXY("BitXor", w)
    ELSE IF n3 = 4 THEN InstXY("MathAdd", w)
    ELSE IF n3 = 5 THEN InstXY("MathSub", w)
    ELSE IF n3 = 6 THEN InstXY("BitShiftR", w)
    ELSE IF n3 = InvertSubNibble THEN InstXY("InvertSub", w)
    ELSE IF n3 = 14 THEN InstXY("BitShiftL", w)
    ELSE InstNone("StopExecution")

DecodeF(w, n2, n3) ==
    IF n2 = 0 /\ n3 = 7 THEN InstX("DelTimrGet", w)
    ELSE IF n2 = 0 /\ n3 = 10 THEN InstX("WaitKey", w)
    ELSE IF n2 = 1 /\ n3 = 5 THEN InstX("DelTimrSet", w)
    ELSE IF n2 = 1 /\ n3 = 8 THEN InstX("SndTimrSet", w)
    ELSE IF n2 = 1 /\ n3 = 14 THEN InstX("PointAdd", w)
    ELSE IF n2 = 2 /\ n3 = 9 THEN InstX("PointChar", w)
    ELSE IF n2 = 3 /\ n3 = 3 THEN InstX("BCDStore", w)
    ELSE IF n2 = 5 /\ n3 = 5 THEN InstX("RegDmp", w)
    ELSE IF n2 = 6 /\ n3 = 5 THEN InstX("RegLoad", w)
    ELSE InstNone("StopExecution")

decode(w) ==
    LET nibs == Nibs(w)
        n0 == nibs[1]
        n1 == nibs[2]
        n2 == nibs[3]
        n3 == nibs[4]
    IN  IF n0 = 0 /\ n1 = 0 /\ n2 = 14 /\ n3 = 0 THEN InstNone("DispClr")
        ELSE IF n0 = 0 /\ n1 = 0 /\ n2 = 14 /\ n3 = 14 THEN InstNone("FlowRet")
        ELSE IF n0 = 0 THEN InstNNN("Call", w)
        ELSE IF n0 = 1 THEN InstNNN("FlowJmp", w)
        ELSE IF n0 = 2 THEN InstNNN("FlowCall", w)
        ELSE IF n0 = 3 THEN InstXNN("CondEqL", w)
        ELSE IF n0 = 4 THEN InstXNN("CondNoEqL", w)
        ELSE IF n0 = 5 /\ n3 = 0 THEN InstXY("CondEqRg", w)
        ELSE IF n0 = 6 THEN InstXNN("RegConst", w)
        ELSE IF n0 = 7 THEN InstXNN("RegAdd", w)
        ELSE IF n0 = 8 THEN Decode8(w, n3)
        ELSE IF n0 = 9 /\ n3 = 0 THEN InstXY("CondNoEqRg", w)
        ELSE IF n0 = 10 THEN InstNNN("SetPoint", w)
        ELSE IF n0 = 11 THEN InstNNN("FlowJmpV0", w)
        ELSE IF n0 = 12 THEN InstXNN("RNG", w)
        ELSE IF n0 = 13 THEN InstXYN("DispDraw", w)
        ELSE IF n0 = 14 /\ n2 = 9 /\ n3 = 14 THEN InstX("CondKey", w)
        ELSE IF n0 = 14 /\ n2 = 10 /\ n3 = 1 THEN InstX("CondNotKey", w)
        ELSE IF n0 = 15 THEN DecodeF(w, n2, n3)
        ELSE InstNone("StopExecution")

(* Instruction::param: a missing operand is a failure. *)
param(p) == IF p = None THEN "Err" ELSE p

-----------------------------------------------------------------------------
(* Memory.                                                                 *)

MEMORY_SIZE == 4096

ROM_SIZE == 3584

ROM_LOCATION == 512

DEFAULT_FONTPACK ==
    <<240, 144, 144, 144, 240,
      32, 96, 32, 32, 112,
      240, 16, 240, 128, 240,
      240, 16, 240, 16, 240,
      144, 144, 240, 16, 16,
      240, 128, 240, 16, 240,
      240, 128, 240, 144, 240,
      240, 16, 32, 64, 64,
      240, 144, 240, 144, 240,
      240, 144, 240, 16, 240,
      240, 144, 240, 144, 144,
      224, 144, 224, 144, 224,
      240, 128, 128, 128, 240,
      224, 144, 144, 144, 224,
      240, 128, 240, 128, 240,
      240, 128, 240, 128, 128>>

DEFAULT_FONTPACK_LOCATION == 80

(* Byte k of the program image: main reads the file into a zeroed buffer   *)
(* of ROM_SIZE bytes, so the bytes after the file's end are zero.          *)
RomByte(image, k) == IF k < Len(image) THEN image[k + 1] ELSE 0

(* A memory whose font was loaded at address 0. *)
InitialMemFontAtZero(image, a) ==
    IF a >= ROM_LOCATION /\ a < ROM_LOCATION + ROM_SIZE
        THEN RomByte(image, a - ROM_LOCATION)
    ELSE IF a < Len(DEFAULT_FONTPACK)
        THEN DEFAULT_FONTPACK[a + 1]
    ELSE 0

(* The memory Chip8Emu::new builds: zeroes, then the font, then the image. *)
InitialMem(image, a) ==
    IF a >= ROM_LOCATION /\ a < ROM_LOCATION + ROM_SIZE
        THEN RomByte(image, a - ROM_LOCATION)
    ELSE IF a >= DEFAULT_FONTPACK_LOCATION
            /\ a < DEFAULT_FONTPACK_LOCATION + Len(DEFAULT_FONTPACK)
        THEN DEFAULT_FONTPACK[a - DEFAULT_FONTPACK_LOCATION + 1]
    ELSE 0

(* Index<u16> for Memory: cell a of a memory given by its written cells w  *)
(* over the initial memory of image.                                       *)
MemRead(w, image, a) == IF a \in DOMAIN w THEN w[a] ELSE InitialMem(image, a)

(* IndexMut<u16> for Memory. *)
MemWrite(w, a, v) ==
    [b \in (DOMAIN w) \cup {a} |-> IF b = a THEN v ELSE w[b]]

(* Index<RangeInclusive<u16>>: the slice start..=end is taken as           *)
(* start..end+1, which must be ordered and end inside the memory.          *)
SliceInBounds(start, end) == start <= end + 1 /\ end + 1 <= MEMORY_SIZE

-----------------------------------------------------------------------------
(* Display.  A row is the set of the bit positions set in its u64;         *)
(* column c of the screen is bit 63 - c.                                   *)

DISPLAY_ROWS == 32

ROW_BITS == 64

EmptyBuffer == [r \in 0..(DISPLAY_ROWS - 1) |-> {}]

(* row as u64 *)
ByteBits(b) == {k \in 0..7 : Bit(b, k) = 1}

(* The u64 operators <<, >>, & and ^ with an in-range shift amount. *)
Shl64(S, s) == {k + s : k \in S} \cap (0..(ROW_BITS - 1))

Shr64(S, s) == {k - s : k \in S} \cap (0..(ROW_BITS - 1))

And64(S, T) == S \cap T

Xor64(S, T) == (S \ T) \cup (T \ S)

RECURSIVE LowBits(_, _)
LowBits(S, n) ==
    IF n = 0 THEN 0
    ELSE (IF (n - 1) \in S THEN Pow2(n - 1) ELSE 0) + LowBits(S, n - 1)

(* (v & 0xFF) as u8 *)
LowByte(S) == LowBits(S, 8)

(* A shift by s of a u64: with overflow checks s >= 64 panics, without     *)
(* them the amount is masked to six bits.                                  *)
ShiftPanics(s, checks) == checks /\ s >= ROW_BITS

ShiftAmount(s) == s % ROW_BITS

Sprite(data, x, y) == [data |-> data, x |-> x, y |-> y]

Change(data, x, y) == [cmd |-> "Change", data |-> data, x |-> x, y |-> y]

Clear == [cmd |-> "Clear", data |-> <<>>, x |-> 0, y |-> 0]

(* The row of a sprite stretched to the full width at column x. *)
BufRow(row, x) ==
    IF x <= 56 THEN Shl64(ByteBits(row), 56 - x)
    ELSE Shr64(ByteBits(row), ShiftAmount(x - 56))

(* The collision test of one row. *)
RowUpdated(old, buf_row) == And64(old, buf_row) # {}

(* The new content of one row. *)
RowWrite(old, buf_row) == Xor64(old, buf_row)

(* The byte of a change notification for one row. *)
ChangeByte(new, x) ==
    IF x <= 56 THEN LowByte(Shr64(new, 56 - x))
    ELSE LowByte(Shl64(new, ShiftAmount(x - 56)))

(* The loop of Display::draw from row index on; acc is the buffer, the     *)
(* collision flag and the change bytes so far.                             *)
RECURSIVE DrawRows(_, _, _, _, _, _)
DrawRows(acc, data, x, y, index, checks) ==
    IF index >= Len(data) \/ y + index >= DISPLAY_ROWS THEN acc
    ELSE IF x > 56 /\ ShiftPanics(x - 56, checks)
        THEN [acc EXCEPT !.panic = TRUE]
    ELSE LET buf_row == BufRow(data[index + 1], x)
             old == acc.buffer[y + index]
             new == RowWrite(old, buf_row)
         IN  DrawRows([buffer |-> [acc.buffer EXCEPT ![y + index] = new],
                       updated |-> acc.updated \/ RowUpdated(old, buf_row),
                       changes |-> Append(acc.changes, ChangeByte(new, x)),
                       panic |-> FALSE],
                      data, x, y, index + 1, checks)

(* A broadcast that serves the first subscriber only. *)
BroadcastFirstOnly(chs, cmd) ==
    [k \in DOMAIN chs |->
        IF chs[k].alive /\ k = 1 THEN [chs[k] EXCEPT !.q = Append(@, cmd)]
        ELSE chs[k]]

(* A broadcast that gives up at the first send that fails. *)
BroadcastStopsAtDead(chs, cmd) ==
    [k \in DOMAIN chs |->
        IF \A j \in 1..k : chs[j].alive
            THEN [chs[k] EXCEPT !.q = Append(@, cmd)]
        ELSE chs[k]]

(* tx.send(cmd) on every channel; a send to a dropped receiver fails and   *)
(* the failure is ignored.                                                 *)
Broadcast(chs, cmd) ==
    [k \in DOMAIN chs |->
        IF chs[k].alive THEN [chs[k] EXCEPT !.q = Append(@, cmd)] ELSE chs[k]]

(* Display::draw: the new buffer, the channels and the returned flag. *)
draw(buf, chs, sprite, checks) ==
    LET acc == DrawRows([buffer |-> buf, updated |-> FALSE,
                         changes |-> <<>>, panic |-> FALSE],
                        sprite.data, sprite.x, sprite.y, 0, checks)
    IN  IF acc.panic
            THEN [panic |-> TRUE, buffer |-> buf, changes |-> chs,
                  updated |-> FALSE]
        ELSE [panic |-> FALSE, buffer |-> acc.buffer,
              changes |-> Broadcast(chs, Change(acc.changes, sprite.x, sprite.y)),
              updated |-> acc.updated]

(* A clear that notifies the subscribers and leaves the buffer. *)
clear_notify_only(buf, chs) == [buffer |-> buf, changes |-> Broadcast(chs, Clear)]

(* Display::clear *)
clear(buf, chs) == [buffer |-> EmptyBuffer, changes |-> Broadcast(chs, Clear)]

(* Display::get_changes_pipe *)
get_changes_pipe(chs) == Append(chs, [alive |-> TRUE, q |-> <<>>])

-----------------------------------------------------------------------------
(* Keyboard.                                                               *)

NO_KEY == 16

(* A channel whose only senders are the drivers handed out. *)
SendersHandedOut(ndrivers) == ndrivers

(* The senders of the keyboard channel: the one the Keyboard keeps itself  *)
(* and the clones new_driver handed out.                                   *)
Senders(ndrivers) == 1 + ndrivers

(* try_recv and recv fail with a disconnect when the queue is empty and    *)
(* no sender is left.                                                      *)
Disconnected(q, ndrivers) == q = <<>> /\ Senders(ndrivers) = 0

(* A poll that leaves the current key alone when no event is pending. *)
recieve_key_keep(pk, q, ndrivers) ==
    IF q # <<>> THEN [result |-> "Ok", pressed_key |-> Head(q), keyq |-> Tail(q)]
    ELSE IF Disconnected(q, ndrivers)
        THEN [result |-> "Err", pressed_key |-> pk, keyq |-> q]
    ELSE [result |-> "Ok", pressed_key |-> pk, keyq |-> q]

(* Keyboard::recieve_key *)
recieve_key(pk, q, ndrivers) ==
    IF q # <<>> THEN [result |-> "Ok", pressed_key |-> Head(q), keyq |-> Tail(q)]
    ELSE IF Disconnected(q, ndrivers)
        THEN [result |-> "Err", pressed_key |-> pk, keyq |-> q]
    ELSE [result |-> "Ok", pressed_key |-> NO_KEY, keyq |-> q]

(* Keyboard::is_key_pressed *)
is_key_pressed(pk, key) == pk = key

(* Keyboard::wait_for_key returns at once when this holds. *)
KeyAlreadyPressed(pk) == pk > NO_KEY

(* A wait that returns the sentinel when no event is pending. *)
wait_for_key_no_block(pk, q, ndrivers) ==
    IF KeyAlreadyPressed(pk)
        THEN [result |-> "Ok", key |-> pk, pressed_key |-> pk, keyq |-> q]
    ELSE IF q # <<>>
        THEN [result |-> "Ok", key |-> Head(q), pressed_key |-> Head(q),
              keyq |-> Tail(q)]
    ELSE [result |-> "Ok", key |-> NO_KEY, pressed_key |-> pk, keyq |-> q]

(* Keyboard::wait_for_key: "Block" while recv has nothing to return. *)
wait_for_key(pk, q, ndrivers) ==
    IF KeyAlreadyPressed(pk)
        THEN [result |-> "Ok", key |-> pk, pressed_key |-> pk, keyq |-> q]
    ELSE IF q # <<>>
        THEN [result |-> "Ok", key |-> Head(q), pressed_key |-> Head(q),
              keyq |-> Tail(q)]
    ELSE IF Disconnected(q, ndrivers)
        THEN [result |-> "Err", key |-> NO_KEY, pressed_key |-> pk, keyq |-> q]
    ELSE [result |-> "Block", key |-> NO_KEY, pressed_key |-> pk, keyq |-> q]

-----------------------------------------------------------------------------
(* Timer.                                                                  *)

(* A tick that sets beep from the sound counter it has counted down. *)
tick_beep_after(d, s) ==
    [dtime |-> IF d > 0 THEN d - 1 ELSE d,
     stime |-> IF s > 0 THEN s - 1 ELSE s,
     beep |-> s > 1]

(* A tick that subtracts without the test for zero. *)
tick_wrapping(d, s) ==
    [dtime |-> (d + 255) % 256,
     stime |-> (s + 255) % 256,
     beep |-> s > 0]

(* A tick that leaves the delay counter alone. *)
tick_sound_only(d, s) ==
    [dtime |-> d,
     stime |-> IF s > 0 THEN s - 1 ELSE s,
     beep |-> s > 0]

(* Timer::tick *)
tick(d, s) ==
    [dtime |-> IF d > 0 THEN d - 1 ELSE d,
     stime |-> IF s > 0 THEN s - 1 ELSE s,
     beep |-> s > 0]

-----------------------------------------------------------------------------
(* The register operations of Chip8Emu::execute.  Each gives the register  *)
(* file after the arm, or panic when an arithmetic overflow check fires.   *)

FLAG == 15

RegOk(r) == [panic |-> FALSE, reg |-> r]

RegPanic(r) == [panic |-> TRUE, reg |-> r]

(* self.reg[x] += nn *)
RegAdd(r, x, nn, checks) ==
    IF checks /\ r[x] + nn > 255 THEN RegPanic(r)
    ELSE RegOk([r EXCEPT ![x] = U8(r[x] + nn)])

(* The carry taken from a sum already truncated to a byte. *)
AddCarryTruncated(a, b) == Shr(U8(a + b), 8)

(* The carry of MathAdd: (result >> 8) as u8 of the u16 sum. *)
AddCarry(a, b) == U8(Shr(a + b, 8))

MathAdd(r, x, y) ==
    LET result == r[x] + r[y]
        r1 == [r EXCEPT ![FLAG] = AddCarry(r[x], r[y])]
    IN  RegOk([r1 EXCEPT ![x] = U8(result)])

(* The flag of MathSub, from y = VY and self.reg[x]. *)
SubFlag(vx, vy) == IF vy > vx THEN 1 ELSE 0

MathSub(r, x, y, checks) ==
    LET vy == r[y]
        r1 == [r EXCEPT ![FLAG] = SubFlag(r[x], vy)]
    IN  IF r1[x] < vy
            THEN IF checks THEN RegPanic(r1)
                 ELSE RegOk([r1 EXCEPT ![x] = U8(r1[x] + 256 - vy)])
        ELSE RegOk([r1 EXCEPT ![x] = r1[x] - vy])

(* The flag of InvertSub, from self.reg[x] and y = VY. *)
InvertSubFlag(vx, vy) == IF vx > vy THEN 1 ELSE 0

InvertSub(r, x, y, checks) ==
    LET vy == r[y]
        r1 == [r EXCEPT ![FLAG] = InvertSubFlag(r[x], vy)]
    IN  IF vy < r1[x]
            THEN IF checks THEN RegPanic(r1)
                 ELSE RegOk([r1 EXCEPT ![x] = U8(vy + 256 - r1[x])])
        ELSE RegOk([r1 EXCEPT ![x] = vy - r1[x]])

(* The shift reading its second register operand instead. *)
ShiftSourceY(r, x, y) == r[y]

(* The value a shift works on: the code reads VX only; y is the operand    *)
(* the instruction carries and the arm ignores.                            *)
ShiftSource(r, x, y) == r[x]

BitShiftR(r, x, y) ==
    LET r1 == [r EXCEPT ![FLAG] = And8(ShiftSource(r, x, y), 1)]
    IN  RegOk([r1 EXCEPT ![x] = Shr(r1[x], 1)])

BitShiftL(r, x, y) ==
    LET r1 == [r EXCEPT ![FLAG] = Shr(ShiftSource(r, x, y), 7)]
    IN  RegOk([r1 EXCEPT ![x] = U8(r1[x] * 2)])

(* The values ThreadRng::gen_range(0..255) can return. *)
RngRange == 0..254

-----------------------------------------------------------------------------
(* Chip8Emu::step.  A machine state st is the record of the fields of      *)
(* Chip8Emu; an operation gives [result, st] with result "Ok", "Err",      *)
(* "Panic" (the thread panicked; st is then the state before the           *)
(* operation, as no one observes the state of a panicked interpreter) or   *)
(* "Block" (the thread waits in recv).                                     *)

STACK_SIZE == 255

EmptyStack == [k \in 0..(STACK_SIZE - 1) |-> 0]

Done(result, st) == [result |-> result, st |-> st]

(* Chip8Emu::fetch: the word at pc, and pc advanced. *)
FetchPanics(st) == st.pc >= MEMORY_SIZE \/ st.pc + 1 >= MEMORY_SIZE

(* A fetch that takes the byte at pc as the low half of the word. *)
FetchWordLittleEndian(st, image) ==
    MemRead(st.ram, image, st.pc) + MemRead(st.ram, image, st.pc + 1) * 256

FetchWord(st, image) ==
    MemRead(st.ram, image, st.pc) * 256 + MemRead(st.ram, image, st.pc + 1)

FetchAdvance(st) == [st EXCEPT !.pc = st.pc + 2]

(* A skip taken when the condition fails. *)
SkipOnMiss(st, cond) == IF cond THEN st ELSE [st EXCEPT !.pc = U16(st.pc + 2)]

(* self.pc += 2 of a taken skip. *)
Skip(st, cond) == IF cond THEN [st EXCEPT !.pc = U16(st.pc + 2)] ELSE st

(* An arm that only rewrites the register file. *)
WithReg(st0, st, res) ==
    IF res.panic THEN Done("Panic", st0)
    ELSE Done("Ok", [st EXCEPT !.reg = res.reg])

(* A return that leaves the saved address in the slot it vacates. *)
FlowRetKeepSlot(st0, st, checks) ==
    IF st.sp = 0 /\ checks THEN Done("Panic", st0)
    ELSE LET sp1 == U8(st.sp + 255)
         IN  IF sp1 >= STACK_SIZE THEN Done("Panic", st0)
             ELSE Done("Ok", [st EXCEPT !.sp = sp1, !.pc = st.stack[sp1]])

(* The arms of execute's match that call no other component. *)
FlowRet(st0, st, checks) ==
    IF st.sp = 0 /\ checks THEN Done("Panic", st0)
    ELSE LET sp1 == U8(st.sp + 255)
         IN  IF sp1 >= STACK_SIZE THEN Done("Panic", st0)
             ELSE Done("Ok", [st EXCEPT !.sp = sp1, !.pc = st.stack[sp1],
                                        !.stack = [@ EXCEPT ![sp1] = 0]])

FlowCall(st0, st, instr) ==
    IF st.sp >= STACK_SIZE THEN Done("Panic", st0)
    ELSE LET st1 == [st EXCEPT !.stack = [@ EXCEPT ![st.sp] = st.pc],
                               !.sp = st.sp + 1]
         IN  IF instr.nnn = None THEN Done("Err", st1)
             ELSE Done("Ok", [st1 EXCEPT !.pc = instr.nnn])

PointAdd(st0, st, x, checks) ==
    IF checks /\ st.i + st.reg[x] > 65535 THEN Done("Panic", st0)
    ELSE Done("Ok", [st EXCEPT !.i = U16(st.i + st.reg[x])])

(* A pointer that takes the digit as a byte offset. *)
PointCharByteOffset(st, x) ==
    Done("Ok", [st EXCEPT !.i = DEFAULT_FONTPACK_LOCATION + st.reg[x]])

PointChar(st, x) ==
    Done("Ok", [st EXCEPT !.i = DEFAULT_FONTPACK_LOCATION + st.reg[x] * 5])

(* The digits in the order the loop produces them, ones first. *)
BCDDigitsOnesFirst(v) == <<v % 10, (v \div 10) % 10, ((v \div 10) \div 10) % 10>>

(* The loop of BCDStore: the digits x % 10 of x, x / 10 and x / 100, the   *)
(* one of x written at I + 2 first.                                        *)
BCDDigits(v) == <<((v \div 10) \div 10) % 10, (v \div 10) % 10, v % 10>>

BCDStore(st0, st, x) ==
    IF st.i + 2 >= MEMORY_SIZE THEN Done("Panic", st0)
    ELSE LET d == BCDDigits(st.reg[x])
             m2 == MemWrite(st.ram, st.i + 2, d[3])
             m1 == MemWrite(m2, st.i + 1, d[2])
             m0 == MemWrite(m1, st.i, d[1])
         IN  Done("Ok", [st EXCEPT !.ram = m0])

RECURSIVE DumpRegs(_, _, _, _)
DumpRegs(w, r, base, n) ==
    IF n = 0 THEN w
    ELSE MemWrite(DumpRegs(w, r, base, n - 1), base + n - 1, r[n - 1])

RegDmp(st0, st, x) ==
    IF st.i + x >= MEMORY_SIZE THEN Done("Panic", st0)
    ELSE Done("Ok", [st EXCEPT !.ram = DumpRegs(st.ram, st.reg, st.i, x + 1)])

(* A load that stops one register short of X. *)
RegLoadExclusive(st0, st, x, image) ==
    IF st.i + x >= MEMORY_SIZE THEN Done("Panic", st0)
    ELSE Done("Ok", [st EXCEPT !.reg =
            [k \in DOMAIN st.reg |->
                IF k < x THEN MemRead(st.ram, image, st.i + k)
                ELSE st.reg[k]]])

RegLoad(st0, st, x, image) ==
    IF st.i + x >= MEMORY_SIZE THEN Done("Panic", st0)
    ELSE Done("Ok", [st EXCEPT !.reg =
            [k \in DOMAIN st.reg |->
                IF k <= x THEN MemRead(st.ram, image, st.i + k)
                ELSE st.reg[k]]])

(* The sprite DispDraw reads: &self.ram[self.i..=self.i+n-1]. *)
SpriteEnd(st, n) == U16(st.i + n + 65535)

SpritePanics(st, n, checks) ==
    \/ checks /\ (st.i + n > 65535 \/ st.i + n = 0)
    \/ ~SliceInBounds(st.i, SpriteEnd(st, n))

SpriteData(st, n, image) == [k \in 1..n |-> MemRead(st.ram, image, st.i + k - 1)]

(* The flag register after a draw: change as u8. *)
CollisionFlag(updated) == IF updated THEN 1 ELSE 0

DispDraw(st0, st, instr, image, checks) ==
    IF SpritePanics(st, instr.n, checks) THEN Done("Panic", st0)
    ELSE LET sprite == Sprite(SpriteData(st, instr.n, image),
                              st.reg[instr.x], st.reg[instr.y])
             d == draw(st.buffer, st.changes, sprite, checks)
         IN  IF d.panic THEN Done("Panic", st0)
             ELSE Done("Ok", [st EXCEPT !.buffer = d.buffer,
                                        !.changes = d.changes,
                                        !.reg = [@ EXCEPT ![FLAG] =
                                                    CollisionFlag(d.updated)]])

WaitKey(st, instr, ndrivers) ==
    LET w == wait_for_key(st.pressed_key, st.keyq, ndrivers)
        st1 == [st EXCEPT !.pressed_key = w.pressed_key, !.keyq = w.keyq]
    IN  IF w.result # "Ok" THEN Done(w.result, st1)
        ELSE IF instr.x = None THEN Done("Err", st1)
        ELSE Done("Ok", [st1 EXCEPT !.reg = [@ EXCEPT ![instr.x] = w.key]])

(* The operands an arm takes with Instruction::param(..)? before it has    *)
(* changed anything: a missing one makes the arm return Err.               *)
Operands(t) ==
    CASE t \in {"FlowJmp", "SetPoint", "FlowJmpV0"} -> {"nnn"}
      [] t \in {"CondEqL", "CondNoEqL", "RegConst", "RegAdd", "RNG"} -> {"x", "nn"}
      [] t \in {"CondEqRg", "Assign", "BitOr", "BitAnd", "BitXor", "MathAdd",
                "MathSub", "InvertSub", "CondNoEqRg"} -> {"x", "y"}
      [] t \in {"BitShiftR", "BitShiftL", "CondKey", "CondNotKey", "DelTimrGet",
                "DelTimrSet", "SndTimrSet", "PointAdd", "PointChar", "BCDStore",
                "RegDmp", "RegLoad"} -> {"x"}
      [] t = "DispDraw" -> {"x", "y", "n"}
      [] OTHER -> {}

MissingOperand(instr) == \E f \in Operands(instr.insttype) : instr[f] = None

(* The match of execute, on the state st after the keyboard poll; st0 is   *)
(* the state before the step and rnd the byte the generator returns.       *)
ExecuteArm(st0, st, instr, rnd, image, ndrivers, checks) ==
    LET t == instr.insttype
        x == instr.x
        y == instr.y
        nn == instr.nn
        nnn == instr.nnn
        r == st.reg
    IN  IF MissingOperand(instr) THEN Done("Err", st)
        ELSE CASE t = "Call" -> Done("Ok", st)
          [] t = "DispClr" ->
                LET c == clear(st.buffer, st.changes)
                IN  Done("Ok", [st EXCEPT !.buffer = c.buffer,
                                          !.changes = c.changes])
          [] t = "FlowRet" -> FlowRet(st0, st, checks)
          [] t = "FlowJmp" -> Done("Ok", [st EXCEPT !.pc = nnn])
          [] t = "FlowCall" -> FlowCall(st0, st, instr)
          [] t = "CondEqL" -> Done("Ok", Skip(st, r[x] = nn))
          [] t = "CondNoEqL" -> Done("Ok", Skip(st, r[x] # nn))
          [] t = "CondEqRg" -> Done("Ok", Skip(st, r[x] = r[y]))
          [] t = "RegConst" -> Done("Ok", [st EXCEPT !.reg = [@ EXCEPT ![x] = nn]])
          [] t = "RegAdd" -> WithReg(st0, st, RegAdd(r, x, nn, checks))
          [] t = "Assign" -> Done("Ok", [st EXCEPT !.reg = [@ EXCEPT ![x] = r[y]]])
          [] t = "BitOr" ->
                Done("Ok", [st EXCEPT !.reg = [@ EXCEPT ![x] = Or8(r[x], r[y])]])
          [] t = "BitAnd" ->
                Done("Ok", [st EXCEPT !.reg = [@ EXCEPT ![x] = And8(r[x], r[y])]])
          [] t = "BitXor" ->
                Done("Ok", [st EXCEPT !.reg = [@ EXCEPT ![x] = Xor8(r[x], r[y])]])
          [] t = "MathAdd" -> WithReg(st0, st, MathAdd(r, x, y))
          [] t = "MathSub" -> WithReg(st0, st, MathSub(r, x, y, checks))
          [] t = "BitShiftR" -> WithReg(st0, st, BitShiftR(r, x, y))
          [] t = "InvertSub" -> WithReg(st0, st, InvertSub(r, x, y, checks))
          [] t = "BitShiftL" -> WithReg(st0, st, BitShiftL(r, x, y))
          [] t = "CondNoEqRg" -> Done("Ok", Skip(st, r[x] # r[y]))
          [] t = "SetPoint" -> Done("Ok", [st EXCEPT !.i = nnn])
          [] t = "FlowJmpV0" -> Done("Ok", [st EXCEPT !.pc = nnn + r[0]])
          [] t = "RNG" ->
                Done("Ok", [st EXCEPT !.reg = [@ EXCEPT ![x] = And8(rnd, nn)]])
          [] t = "DispDraw" -> DispDraw(st0, st, instr, image, checks)
          [] t = "CondKey" ->
                Done("Ok", Skip(st, is_key_pressed(st.pressed_key, r[x])))
          [] t = "CondNotKey" ->
                Done("Ok", Skip(st, ~is_key_pressed(st.pressed_key, r[x])))
          [] t = "DelTimrGet" ->
                Done("Ok", [st EXCEPT !.reg = [@ EXCEPT ![x] = st.dtime]])
          [] t = "WaitKey" -> WaitKey(st, instr, ndrivers)
          [] t = "DelTimrSet" -> Done("Ok", [st EXCEPT !.dtime = r[x]])
          [] t = "SndTimrSet" -> Done("Ok", [st EXCEPT !.stime = r[x]])
          [] t = "PointAdd" -> PointAdd(st0, st, x, checks)
          [] t = "PointChar" -> PointChar(st, x)
          [] t = "BCDStore" -> BCDStore(st0, st, x)
          [] t = "RegDmp" -> RegDmp(st0, st, x)
          [] t = "RegLoad" -> RegLoad(st0, st, x, image)
          [] t = "StopExecution" -> Done("Err", st)

(* Chip8Emu::execute: the keyboard poll, then the match. *)
execute(st0, st, instr, rnd, image, ndrivers, checks) ==
    LET k == recieve_key(st.pressed_key, st.keyq, ndrivers)
        st1 == [st EXCEPT !.pressed_key = k.pressed_key, !.keyq = k.keyq]
    IN  IF k.result = "Err" THEN Done("Err", st)
        ELSE ExecuteArm(st0, st1, instr, rnd, image, ndrivers, checks)

(* Chip8Emu::step: fetch, decode, execute. *)
step(st, rnd, image, ndrivers, checks) ==
    IF FetchPanics(st) THEN Done("Panic", st)
    ELSE execute(st, FetchAdvance(st), decode(FetchWord(st, image)), rnd,
                 image, ndrivers, checks)

(* A run loop that ignores the result of step. *)
RunContinuesAlways(result) == TRUE

(* Chip8Emu::run: the loop goes on after a step exactly when it was Ok. *)
RunContinues(result) == result = "Ok"

-----------------------------------------------------------------------------
(* The state of the machine and the interpreter's run loop.                *)

(* The fields of Chip8Emu as one record. *)
St ==
    [ram |-> ram, pc |-> pc, stack |-> stack, sp |-> sp, reg |-> reg, i |-> i,
     buffer |-> buffer, changes |-> changes, pressed_key |-> pressed_key,
     keyq |-> keyq, dtime |-> dtime, stime |-> stime]

SetSt(st) ==
    /\ ram' = st.ram
    /\ pc' = st.pc
    /\ stack' = st.stack
    /\ sp' = st.sp
    /\ reg' = st.reg
    /\ i' = st.i
    /\ buffer' = st.buffer
    /\ changes' = st.changes
    /\ pressed_key' = st.pressed_key
    /\ keyq' = st.keyq
    /\ dtime' = st.dtime
    /\ stime' = st.stime

NoSprite == Sprite(<<>>, 0, 0)

Last(op, ret, sprite, updated) ==
    [op |-> op, ret |-> ret, sprite |-> sprite, updated |-> updated]

NoInstruction == InstNone("StopExecution")

(* Timer::new: the three Mutexes unlocked and the counters zero; no thread *)
(* is inside the Timer.                                                    *)
TimerLocks == {"dtime", "stime", "beep"}

TimerThreads == {"clock", "emu", "bell"}

NoOwner == [l \in TimerLocks |-> "free"]

AllIdle == [t \in TimerThreads |-> "idle"]

NewDelay == [n |-> 0, ticks |-> 0, sn |-> 0, sticks |-> 0]

(* Chip8Emu::new: the state after construction, with every register, the  *)
(* stack and the frame buffer zero and no key pressed.  NewWith is that    *)
(* state with the register file regs and the word w, for a specification   *)
(* that applies one operation to drawn inputs.                             *)
NewReg == [k \in 0..15 |-> 0]

NewWith(image, checks, regs, w) ==
    /\ rom = image
    /\ overflow_checks = checks
    /\ ram = <<>>
    /\ pc = ROM_LOCATION
    /\ stack = EmptyStack
    /\ sp = 0
    /\ reg = regs
    /\ i = 0
    /\ buffer = EmptyBuffer
    /\ changes = <<>>
    /\ pressed_key = NO_KEY
    /\ keyq = <<>>
    /\ drivers = 0
    /\ dtime = 0
    /\ stime = 0
    /\ beep = FALSE
    /\ status = "running"
    /\ word = w
    /\ inst = NoInstruction
    /\ steps = 0
    /\ last = Last("new", "Ok", NoSprite, FALSE)
    /\ owner = NoOwner
    /\ at = AllIdle
    /\ dhist = NewDelay

New(image, checks) == NewWith(image, checks, NewReg, 0)

(* The status of the run loop after a step that returned result. *)
StatusAfter(result) ==
    IF result = "Panic" THEN "panicked"
    ELSE IF result = "Block" THEN "blocked"
    ELSE IF RunContinues(result) THEN "running"
    ELSE "halted"

(* Bounds of the model. *)
MaxSteps == 7

MaxKeyQ == 2

MaxSubs == 1

MaxDrivers == 1

(* The key codes the external producer sends. *)
Keys == {0, 5}

(* Program images, as the 16-bit words at 0x200, 0x202, ... *)
Prog(ws) == [k \in 1..(2 * Len(ws)) |->
                IF k % 2 = 1 THEN Shr(ws[(k + 1) \div 2], 8)
                ELSE ws[k \div 2] % 256]

ProgramWords ==
    { <<24831, 24834, 32788, 33029, 32774, 32798, 32791>>,
       \* 60FF 6102 8014 8105 8016 801E 8017
      <<41040, 53269, 53269, 224, 65535>>,
       \* A050 D015 D015 00E0 FFFF
      <<8710, 65535, 0, 238>>,
       \* 2206 FFFF 0000 00EE
      <<61450, 57502, 57505, 20481>>,
       \* F00A E09E E0A1 5001
      <<24579, 61461, 61464, 61447, 36865>>,
       \* 6003 F015 F018 F007 9001
      <<24810, 41728, 61491, 61781, 61797, 61470, 61481>>,
       \* 60EA A300 F033 F155 F165 F01E F029
      <<12288, 65535, 16384, 20496, 36880, 45572, 4608>>,
       \* 3000 FFFF 4000 5010 9010 B204 1200
      <<49155, 28929, 33281, 33282, 33283, 33536>>,
       \* C003 7101 8201 8202 8203 8300
      <<24696, 41040, 53249, 53249>>,
       \* 6078 A050 D001 D001
      <<238>>,
       \* 00EE
      <<8191>>,
       \* 1FFF
      <<24831, 28674, 65535>>
       \* 60FF 7002 FFFF
    }

Programs == {Prog(ws) : ws \in ProgramWords}

Init ==
    /\ \E image \in Programs, checks \in BOOLEAN : New(image, checks)
    /\ prev = St

(* The bytes the random generator can return to an instruction. *)
RndChoices(instr) == IF instr.insttype = "RNG" THEN RngRange ELSE {0}

(* One pass of the loop of Chip8Emu::run: a step (fetch, decode, execute)  *)
(* and the loop's test of its result.                                      *)
Step ==
    /\ status = "running"
    /\ steps < MaxSteps
    /\ IF FetchPanics(St)
        THEN /\ status' = StatusAfter("Panic")
             /\ last' = Last("step", "Panic", NoSprite, FALSE)
             /\ UNCHANGED <<ram, pc, stack, sp, reg, i, buffer, changes,
                            pressed_key, keyq, dtime, stime, word, inst>>
        ELSE \E w \in {FetchWord(St, rom)} :
             \E instr \in {decode(w)} :
             \E rnd \in RndChoices(instr) :
             \E r \in {execute(St, FetchAdvance(St), instr, rnd, rom, drivers,
                               overflow_checks)} :
                /\ SetSt(r.st)
                /\ status' = StatusAfter(r.result)
                /\ last' = Last("step", r.result, NoSprite, FALSE)
                /\ word' = w
                /\ inst' = instr
    /\ steps' = steps + 1
    /\ UNCHANGED <<owner, at, dhist, rom, overflow_checks, drivers, beep, prev>>

(* The recv of wait_for_key returns: the step blocked in WaitKey ends. *)
WaitKeyReturn ==
    /\ status = "blocked"
    /\ keyq # <<>> \/ Disconnected(keyq, drivers)
    /\ \E r \in {WaitKey(St, inst, drivers)} :
           /\ SetSt(r.st)
           /\ status' = StatusAfter(r.result)
           /\ last' = Last("step", r.result, NoSprite, FALSE)
    /\ UNCHANGED <<owner, at, dhist, rom, overflow_checks, drivers, beep, word, inst, steps, prev>>

(* The timer thread: one tick. *)
Tick ==
    /\ LET t == tick(dtime, stime)
       IN  /\ dtime' = t.dtime
           /\ stime' = t.stime
           /\ beep' = t.beep
    /\ UNCHANGED <<owner, at, dhist, rom, overflow_checks, ram, pc, stack, sp, reg, i, buffer,
                   changes, pressed_key, keyq, drivers, status, word, inst,
                   steps, last, prev>>

(* Chip8Emu::new_keyboard_driver, and the drop of a Sender it returned.    *)
(* main takes the driver and the change feed before it calls run, and run  *)
(* borrows the emulator for as long as it loops.                           *)
NewDriver ==
    /\ steps = 0
    /\ drivers < MaxDrivers
    /\ drivers' = drivers + 1
    /\ UNCHANGED <<owner, at, dhist, rom, overflow_checks, ram, pc, stack, sp, reg, i, buffer,
                   changes, pressed_key, keyq, dtime, stime, beep, status,
                   word, inst, steps, last, prev>>

DropDriver ==
    /\ drivers > 0
    /\ drivers' = drivers - 1
    /\ UNCHANGED <<owner, at, dhist, rom, overflow_checks, ram, pc, stack, sp, reg, i, buffer,
                   changes, pressed_key, keyq, dtime, stime, beep, status,
                   word, inst, steps, last, prev>>

(* The external producer sends a key code. *)
KeySend ==
    /\ drivers > 0
    /\ Len(keyq) < MaxKeyQ
    /\ \E k \in Keys : keyq' = Append(keyq, k)
    /\ UNCHANGED <<owner, at, dhist, rom, overflow_checks, ram, pc, stack, sp, reg, i, buffer,
                   changes, pressed_key, drivers, dtime, stime, beep, status,
                   word, inst, steps, last, prev>>

(* Chip8Emu::get_screen_changes *)
Subscribe ==
    /\ steps = 0
    /\ Len(changes) < MaxSubs
    /\ changes' = get_changes_pipe(changes)
    /\ UNCHANGED <<owner, at, dhist, rom, overflow_checks, ram, pc, stack, sp, reg, i, buffer,
                   pressed_key, keyq, drivers, dtime, stime, beep, status,
                   word, inst, steps, last, prev>>

(* A subscriber takes the next notification from its channel. *)
SubscriberRecv ==
    /\ \E k \in DOMAIN changes :
        /\ changes[k].alive
        /\ changes[k].q # <<>>
        /\ changes' = [changes EXCEPT ![k].q = Tail(@)]
    /\ UNCHANGED <<owner, at, dhist, rom, overflow_checks, ram, pc, stack, sp, reg, i, buffer,
                   pressed_key, keyq, drivers, dtime, stime, beep, status,
                   word, inst, steps, last, prev>>

(* A subscriber drops its Receiver, and with it what it had not read. *)
SubscriberDrop ==
    /\ \E k \in DOMAIN changes :
        /\ changes[k].alive
        /\ changes' = [changes EXCEPT ![k] = [alive |-> FALSE, q |-> <<>>]]
    /\ UNCHANGED <<owner, at, dhist, rom, overflow_checks, ram, pc, stack, sp, reg, i, buffer,
                   pressed_key, keyq, drivers, dtime, stime, beep, status,
                   word, inst, steps, last, prev>>

Next ==
    \/ Step
    \/ WaitKeyReturn
    \/ Tick
    \/ NewDriver
    \/ DropDriver
    \/ KeySend
    \/ Subscribe
    \/ SubscriberRecv
    \/ SubscriberDrop

Spec == Init /\ [][Next]_vars

-----------------------------------------------------------------------------
(* The decoder on its own: decode applied to any 16-bit word.              *)

InitDecode ==
    /\ \E w \in 0..65535 : NewWith(<<>>, FALSE, NewReg, w)
    /\ prev = St

DecodeWord ==
    /\ last.op = "new"
    /\ inst' = decode(word)
    /\ last' = Last("decode", "Ok", NoSprite, FALSE)
    /\ steps' = steps + 1
    /\ UNCHANGED <<owner, at, dhist, rom, overflow_checks, ram, pc, stack, sp, reg, i, buffer,
                   changes, pressed_key, keyq, drivers, dtime, stime, beep,
                   status, word, prev>>

NextDecode == DecodeWord

SpecDecode == InitDecode /\ [][NextDecode]_vars

-----------------------------------------------------------------------------
(* execute on its own: one register instruction applied to a register     *)
(* file that holds a in V0 and b in V1 and VF.                             *)

ByteSamples == {0, 1, 2, 15, 16, 127, 128, 129, 254, 255}

ExecTypes == {"MathAdd", "MathSub", "InvertSub", "BitShiftR", "BitShiftL"}

ExecOperands == {<<0, 1>>, <<1, 0>>, <<0, 0>>, <<0, 15>>, <<15, 0>>, <<15, 15>>}

InitExec ==
    /\ \E a \in 0..255, b \in ByteSamples, checks \in BOOLEAN :
        NewWith(<<>>, checks, [NewReg EXCEPT ![0] = a, ![1] = b, ![FLAG] = b], 0)
    /\ prev = St

ExecuteInst ==
    /\ last.op = "new"
    /\ \E t \in ExecTypes, xy \in ExecOperands :
       \E instr \in {Instruction(t, None, None, None, xy[1], xy[2])} :
       \E r \in {execute(St, St, instr, 0, rom, drivers, overflow_checks)} :
            /\ SetSt(r.st)
            /\ status' = StatusAfter(r.result)
            /\ last' = Last("execute", r.result, NoSprite, FALSE)
            /\ inst' = instr
    /\ prev' = St
    /\ steps' = steps + 1
    /\ UNCHANGED <<owner, at, dhist, rom, overflow_checks, drivers, beep, word>>

NextExec == ExecuteInst

SpecExec == InitExec /\ [][NextExec]_vars

-----------------------------------------------------------------------------
(* The display on its own: draw and clear applied to the frame buffer.     *)

MaxDraws == 3

SpriteXs == {0, 4, 56, 57, 63, 64, 119, 120, 124, 255}

Sprites ==
    {Sprite(d, x, 0) : d \in {<<255>>, <<129, 24>>}, x \in SpriteXs}
    \cup {Sprite(d, 0, y) : d \in {<<255>>, <<129, 24>>}, y \in {31, 32, 200}}

InitDisplay ==
    /\ \E checks \in BOOLEAN : New(<<>>, checks)
    /\ prev = St

DisplayDraw ==
    /\ status = "running"
    /\ steps < MaxDraws
    /\ \E sprite \in Sprites :
       \E d \in {draw(buffer, changes, sprite, overflow_checks)} :
            /\ buffer' = d.buffer
            /\ changes' = d.changes
            /\ reg' = IF d.panic THEN reg
                       ELSE [reg EXCEPT ![FLAG] = CollisionFlag(d.updated)]
            /\ status' = IF d.panic THEN "panicked" ELSE status
            /\ last' = Last("draw", IF d.panic THEN "Panic" ELSE "Ok", sprite,
                            d.updated)
    /\ prev' = St
    /\ steps' = steps + 1
    /\ UNCHANGED <<owner, at, dhist, rom, overflow_checks, ram, pc, stack, sp, i,
                   pressed_key, keyq, drivers, dtime, stime, beep, word, inst>>

DisplayClear ==
    /\ status = "running"
    /\ steps < MaxDraws
    /\ \E c \in {clear(buffer, changes)} :
            /\ buffer' = c.buffer
            /\ changes' = c.changes
    /\ last' = Last("clear", "Ok", NoSprite, FALSE)
    /\ prev' = St
    /\ steps' = steps + 1
    /\ UNCHANGED <<owner, at, dhist, rom, overflow_checks, ram, pc, stack, sp, reg, i,
                   pressed_key, keyq, drivers, dtime, stime, beep, status,
                   word, inst>>

NextDisplay ==
    \/ DisplayDraw
    \/ DisplayClear

SpecDisplay == InitDisplay /\ [][NextDisplay]_vars

-----------------------------------------------------------------------------
(* The display with its change feed: sprites drawn and the screen cleared  *)
(* while subscribers come, read and go.  get_screen_changes and step are   *)
(* both public, so a subscription can fall between any two instructions.   *)

MaxFeedOps == 2

MaxFeeds == 2

FeedSprites ==
    {Sprite(<<255>>, 60, 0), Sprite(<<129, 24>>, 0, 31), Sprite(<<255>>, 120, 0)}

InitFeed ==
    /\ \E checks \in BOOLEAN : New(<<>>, checks)
    /\ prev = St

(* Display::draw called by the DispDraw arm, which stores the flag. *)
FeedDraw ==
    /\ status = "running"
    /\ steps < MaxFeedOps
    /\ \E sprite \in FeedSprites :
       \E d \in {draw(buffer, changes, sprite, overflow_checks)} :
            /\ buffer' = d.buffer
            /\ changes' = d.changes
            /\ reg' = IF d.panic THEN reg
                       ELSE [reg EXCEPT ![FLAG] = CollisionFlag(d.updated)]
            /\ status' = IF d.panic THEN "panicked" ELSE status
            /\ last' = Last("draw", IF d.panic THEN "Panic" ELSE "Ok", sprite,
                            d.updated)
    /\ prev' = St
    /\ steps' = steps + 1
    /\ UNCHANGED <<owner, at, dhist, rom, overflow_checks, ram, pc, stack, sp, i,
                   pressed_key, keyq, drivers, dtime, stime, beep, word, inst>>

(* execute applied to the clear instruction. *)
FeedClear ==
    /\ status = "running"
    /\ steps < MaxFeedOps
    /\ \E instr \in {InstNone("DispClr")} :
       \E r \in {execute(St, St, instr, 0, rom, drivers, overflow_checks)} :
            /\ SetSt(r.st)
            /\ status' = StatusAfter(r.result)
            /\ last' = Last("clear", r.result, NoSprite, FALSE)
            /\ inst' = instr
    /\ prev' = St
    /\ steps' = steps + 1
    /\ UNCHANGED <<owner, at, dhist, rom, overflow_checks, drivers, beep, word>>

(* Chip8Emu::get_screen_changes, at any time. *)
FeedSubscribe ==
    /\ Len(changes) < MaxFeeds
    /\ changes' = get_changes_pipe(changes)
    /\ UNCHANGED <<owner, at, dhist, rom, overflow_checks, ram, pc, stack, sp, reg, i, buffer,
                   pressed_key, keyq, drivers, dtime, stime, beep, status,
                   word, inst, steps, last, prev>>

NextFeed ==
    \/ FeedDraw
    \/ FeedClear
    \/ FeedSubscribe
    \/ SubscriberRecv
    \/ SubscriberDrop

SpecFeed == InitFeed /\ [][NextFeed]_vars

-----------------------------------------------------------------------------
(* The instructions that move data between the registers and the memory,   *)
(* applied to a register file that holds a different value in every        *)
(* register, at an address the program has put into I.                     *)

MemAddrs == {0, 80, 512, 4080, 4093, 4094, 4095}

MemXs == {0, 1, 15}

RegPattern(a) == [k \in 0..15 |-> (a + 17 * k) % 256]

InitMem ==
    /\ \E a \in 0..255, checks \in BOOLEAN : NewWith(<<>>, checks, RegPattern(a), 0)
    /\ prev = St

(* execute applied to one instruction; op names the step in last. *)
MemExec(op, instr) ==
    /\ \E r \in {execute(St, St, instr, 0, rom, drivers, overflow_checks)} :
            /\ SetSt(r.st)
            /\ status' = StatusAfter(r.result)
            /\ last' = Last(op, r.result, NoSprite, FALSE)
            /\ inst' = instr
    /\ prev' = St
    /\ steps' = steps + 1
    /\ UNCHANGED <<owner, at, dhist, rom, overflow_checks, drivers, beep, word>>

(* ANNN *)
MemSetPoint ==
    /\ last.op = "new"
    /\ \E nnn \in MemAddrs : MemExec("point", InstNNN("SetPoint", nnn))

(* FX33 *)
MemBCD ==
    /\ last.op = "point"
    /\ \E x \in MemXs : MemExec("bcd", InstX("BCDStore", 256 * x))

(* FX55 *)
MemDump ==
    /\ last.op = "point"
    /\ \E x \in MemXs : MemExec("dump", InstX("RegDmp", 256 * x))

(* FX65, on the registers as they are. *)
MemLoad ==
    /\ last.op \in {"point", "bcd"}
    /\ status = "running"
    /\ \E x \in MemXs : MemExec("load", InstX("RegLoad", 256 * x))

(* The loop of run on a straight line of instructions: execute one after   *)
(* the other until one does not return Ok.                                 *)
RECURSIVE RunInstrs(_, _, _, _, _)
RunInstrs(st, instrs, image, ndrivers, checks) ==
    IF instrs = <<>> THEN Done("Ok", st)
    ELSE LET r == execute(st, st, Head(instrs), 0, image, ndrivers, checks)
         IN  IF RunContinues(r.result)
                THEN RunInstrs(r.st, Tail(instrs), image, ndrivers, checks)
             ELSE r

(* 6000 6100 .. 6F00: every register set to zero. *)
ZeroRegs == [k \in 1..16 |-> InstXNN("RegConst", 256 * (k - 1))]

(* After a dump: the register file zeroed, then FX65. *)
MemReload ==
    /\ last.op = "dump"
    /\ status = "running"
    /\ \E x \in MemXs :
       \E instr \in {InstX("RegLoad", 256 * x)} :
       \E r \in {RunInstrs(St, Append(ZeroRegs, instr), rom, drivers,
                           overflow_checks)} :
            /\ SetSt(r.st)
            /\ status' = StatusAfter(r.result)
            /\ last' = Last("reload", r.result, NoSprite, FALSE)
            /\ inst' = instr
    /\ steps' = steps + 17
    /\ UNCHANGED <<owner, at, dhist, rom, overflow_checks, drivers, beep, word, prev>>

NextMem ==
    \/ MemSetPoint
    \/ MemBCD
    \/ MemDump
    \/ MemLoad
    \/ MemReload

SpecMem == InitMem /\ [][NextMem]_vars

-----------------------------------------------------------------------------
(* The Timer shared by three threads: the clock thread of Timer::start,    *)
(* the interpreter thread inside the timer arms of execute, and the bell   *)
(* thread of bell_init.  Each thread takes one step per Mutex it locks; a  *)
(* thread that calls lock on a held Mutex waits.  Every guard lives to the *)
(* end of the block that took it, so a thread gives its locks back         *)
(* together, with its last step.                                           *)

MaxTimerOps == 2

TickCap == 3

(* The values the program has put into V0 before it sets a timer. *)
TimerValues == {0, 1, 3}

(* FX15 and FX18 from V0, FX07 into V0 and into V1. *)
TimerInstrs ==
    {InstX("DelTimrSet", 0), InstX("SndTimrSet", 0),
     InstX("DelTimrGet", 0), InstX("DelTimrGet", 256)}

(* Timer::tick: the Mutexes in the order it locks them. *)
TickLocks == <<"dtime", "stime", "beep">>

(* An interpreter that reaches into the counters without their Mutex. *)
ExecuteLocksNone(t) == <<>>

(* Chip8Emu::execute: the Mutex an arm locks. *)
ExecuteLocks(t) ==
    IF t \in {"DelTimrGet", "DelTimrSet"} THEN <<"dtime">>
    ELSE IF t = "SndTimrSet" THEN <<"stime">>
    ELSE <<>>

(* A bell thread that goes on to lock the delay counter. *)
BellLocksBeepThenDelay == <<"beep", "dtime">>

(* bell_init: the Mutex one round of the loop locks. *)
BellLocks == <<"beep">>

LocksOf(t) ==
    IF t = "clock" THEN TickLocks
    ELSE IF t = "bell" THEN BellLocks
    ELSE ExecuteLocks(inst.insttype)

Held(t) == {l \in TimerLocks : owner[l] = t}

HoldsAll(t) == Cardinality(Held(t)) = Len(LocksOf(t))

(* The Mutex the thread locks next. *)
NextLock(t) == LocksOf(t)[Cardinality(Held(t)) + 1]

Released(t) == [l \in TimerLocks |-> IF owner[l] = t THEN "free" ELSE owner[l]]

(* Mutex::lock, once it returns. *)
Lock(t) ==
    /\ at[t] = "locking"
    /\ ~HoldsAll(t)
    /\ owner[NextLock(t)] = "free"
    /\ owner' = [owner EXCEPT ![NextLock(t)] = t]

InitTimer ==
    \E n \in TimerValues, checks \in BOOLEAN :
        /\ NewWith(<<>>, checks, [NewReg EXCEPT ![0] = n], 0)
        /\ prev = St

(* The clock thread wakes and calls tick. *)
ClockTickBegin ==
    /\ at["clock"] = "idle"
    /\ at' = [at EXCEPT !["clock"] = "locking"]
    /\ UNCHANGED <<owner, dhist, rom, overflow_checks, ram, pc, stack, sp, reg,
                   i, buffer, changes, pressed_key, keyq, drivers, dtime,
                   stime, beep, status, word, inst, steps, last, prev>>

(* tick locks its next Mutex; with the delay counter's it counts it down. *)
ClockLock ==
    /\ Lock("clock")
    /\ dtime' = IF NextLock("clock") = "dtime"
                    THEN tick(dtime, stime).dtime ELSE dtime
    /\ UNCHANGED <<at, dhist, rom, overflow_checks, ram, pc, stack, sp, reg, i,
                   buffer, changes, pressed_key, keyq, drivers, stime, beep,
                   status, word, inst, steps, last, prev>>

(* tick counts the sound counter down, sets beep and returns. *)
ClockTickEnd ==
    /\ at["clock"] = "locking"
    /\ HoldsAll("clock")
    /\ stime' = tick(dtime, stime).stime
    /\ beep' = tick(dtime, stime).beep
    /\ owner' = Released("clock")
    /\ at' = [at EXCEPT !["clock"] = "idle"]
    /\ dhist' = [dhist EXCEPT !.ticks = IF @ < TickCap THEN @ + 1 ELSE @,
                              !.sticks = IF @ < TickCap THEN @ + 1 ELSE @]
    /\ UNCHANGED <<rom, overflow_checks, ram, pc, stack, sp, reg, i, buffer,
                   changes, pressed_key, keyq, drivers, dtime, status, word,
                   inst, steps, last, prev>>

(* The interpreter enters execute with a timer instruction. *)
EmuBegin ==
    /\ at["emu"] = "idle"
    /\ status = "running"
    /\ steps < MaxTimerOps
    /\ \E instr \in TimerInstrs : inst' = instr
    /\ at' = [at EXCEPT !["emu"] = "locking"]
    /\ steps' = steps + 1
    /\ last' = Last("begin", "Ok", NoSprite, FALSE)
    /\ UNCHANGED <<owner, dhist, rom, overflow_checks, ram, pc, stack, sp, reg,
                   i, buffer, changes, pressed_key, keyq, drivers, dtime,
                   stime, beep, status, word, prev>>

(* The arm's lock returns. *)
EmuLock ==
    /\ Lock("emu")
    /\ UNCHANGED <<at, dhist, rom, overflow_checks, ram, pc, stack, sp, reg, i,
                   buffer, changes, pressed_key, keyq, drivers, dtime, stime,
                   beep, status, word, inst, steps, last, prev>>

(* The arm reads or writes the counter under its guard and returns. *)
EmuEnd ==
    /\ at["emu"] = "locking"
    /\ HoldsAll("emu")
    /\ \E r \in {execute(St, St, inst, 0, rom, drivers, overflow_checks)} :
            /\ SetSt(r.st)
            /\ status' = StatusAfter(r.result)
            /\ last' = Last("timer", r.result, NoSprite, FALSE)
    /\ dhist' = IF inst.insttype = "DelTimrSet"
                    THEN [dhist EXCEPT !.n = reg[inst.x], !.ticks = 0]
                 ELSE IF inst.insttype = "SndTimrSet"
                    THEN [dhist EXCEPT !.sn = reg[inst.x], !.sticks = 0]
                 ELSE dhist
    /\ owner' = Released("emu")
    /\ at' = [at EXCEPT !["emu"] = "idle"]
    /\ UNCHANGED <<rom, overflow_checks, drivers, beep, word, inst, steps, prev>>

(* The bell thread wakes for a round of its loop. *)
BellBegin ==
    /\ at["bell"] = "idle"
    /\ at' = [at EXCEPT !["bell"] = "locking"]
    /\ UNCHANGED <<owner, dhist, rom, overflow_checks, ram, pc, stack, sp, reg,
                   i, buffer, changes, pressed_key, keyq, drivers, dtime,
                   stime, beep, status, word, inst, steps, last, prev>>

BellLock ==
    /\ Lock("bell")
    /\ UNCHANGED <<at, dhist, rom, overflow_checks, ram, pc, stack, sp, reg, i,
                   buffer, changes, pressed_key, keyq, drivers, dtime, stime,
                   beep, status, word, inst, steps, last, prev>>

(* The bell thread reads beep, rings the terminal and drops its guard. *)
BellEnd ==
    /\ at["bell"] = "locking"
    /\ HoldsAll("bell")
    /\ owner' = Released("bell")
    /\ at' = [at EXCEPT !["bell"] = "idle"]
    /\ UNCHANGED <<dhist, rom, overflow_checks, ram, pc, stack, sp, reg, i,
                   buffer, changes, pressed_key, keyq, drivers, dtime, stime,
                   beep, status, word, inst, steps, last, prev>>

NextTimer ==
    \/ ClockTickBegin
    \/ ClockLock
    \/ ClockTickEnd
    \/ EmuBegin
    \/ EmuLock
    \/ EmuEnd
    \/ BellBegin
    \/ BellLock
    \/ BellEnd

SpecTimer == InitTimer /\ [][NextTimer]_vars

(* The threads as the operating system runs them: a thread that can go on  *)
(* does, and the clock thread gets a Mutex that comes free again and again.*)
SpecTimerFair ==
    /\ SpecTimer
    /\ WF_vars(ClockTickBegin)
    /\ SF_vars(ClockLock)
    /\ WF_vars(ClockTickEnd)
    /\ WF_vars(EmuEnd)
    /\ WF_vars(BellEnd)

-----------------------------------------------------------------------------
(* The Keyboard under execute, with the producer of key events at the     *)
(* other end of the channel.  execute polls the keyboard and then runs    *)
(* the arm of the instruction; the producer may send between the two, and *)
(* while the arm of FX0A waits in recv.  main hands one driver to the key *)
(* proxy before it calls run.                                             *)

MaxKeyOps == 3

(* FX0A into V1, and EX9E on V0. *)
KeyInstrs == {InstX("WaitKey", 256), InstX("CondKey", 0)}

InitKeys ==
    /\ \E checks \in BOOLEAN : NewWith(<<>>, checks, NewReg, 0)
    /\ prev = St

(* Chip8Emu::new_keyboard_driver, called once before run. *)
KeysNewDriver ==
    /\ last.op = "new"
    /\ drivers = 0
    /\ drivers' = 1
    /\ last' = Last("driver", "Ok", NoSprite, FALSE)
    /\ UNCHANGED <<owner, at, dhist, rom, overflow_checks, ram, pc, stack, sp, reg,
                   i, buffer, changes, pressed_key, keyq, dtime, stime, beep,
                   status, word, inst, steps, prev>>

(* execute is entered with an instruction and polls the keyboard. *)
KeysPoll ==
    /\ last.op \in {"driver", "arm", "woke"}
    /\ status = "running"
    /\ steps < MaxKeyOps
    /\ \E instr \in KeyInstrs : inst' = instr
    /\ \E k \in {recieve_key(pressed_key, keyq, drivers)} :
            /\ pressed_key' = k.pressed_key
            /\ keyq' = k.keyq
            /\ status' = StatusAfter(k.result)
            /\ last' = Last("poll", k.result, NoSprite, FALSE)
    /\ prev' = St
    /\ steps' = steps + 1
    /\ UNCHANGED <<owner, at, dhist, rom, overflow_checks, ram, pc, stack, sp, reg,
                   i, buffer, changes, drivers, dtime, stime, beep, word>>

(* The arm of the instruction; the arm of FX0A may block in recv. *)
KeysArm ==
    /\ last.op = "poll"
    /\ status = "running"
    /\ \E r \in {ExecuteArm(St, St, inst, 0, rom, drivers, overflow_checks)} :
            /\ SetSt(r.st)
            /\ status' = StatusAfter(r.result)
            /\ last' = Last(IF r.result = "Block" THEN "wait" ELSE "arm",
                            r.result, NoSprite, FALSE)
    /\ UNCHANGED <<owner, at, dhist, rom, overflow_checks, drivers, beep, word,
                   inst, steps, prev>>

(* The recv of wait_for_key returns. *)
KeysWaitReturn ==
    /\ last.op = "wait"
    /\ status = "blocked"
    /\ keyq # <<>> \/ Disconnected(keyq, drivers)
    /\ \E r \in {WaitKey(St, inst, drivers)} :
            /\ SetSt(r.st)
            /\ status' = StatusAfter(r.result)
            /\ last' = Last("woke", r.result, NoSprite, FALSE)
    /\ UNCHANGED <<owner, at, dhist, rom, overflow_checks, drivers, beep, word,
                   inst, steps, prev>>

NextKeys ==
    \/ KeysNewDriver
    \/ KeysPoll
    \/ KeysArm
    \/ KeysWaitReturn
    \/ KeySend
    \/ DropDriver

SpecKeys == InitKeys /\ [][NextKeys]_vars

-----------------------------------------------------------------------------

(* Calls and returns at a call depth that a program has reached: the      *)
(* program 2200, a call of its own address, has run for some steps, and   *)
(* then the step at pc is a call or a return.                             *)

MaxStackOps == 3

CallTargets == {512, 672}

RecursiveCall == Prog(<<8704>>)

InitStack ==
    /\ \E checks \in BOOLEAN : NewWith(RecursiveCall, checks, NewReg, 0)
    /\ prev = St

(* A step of the program; steps counts the calls and returns after it. *)
StackDescend ==
    /\ last.op \in {"new", "descend"}
    /\ status = "running"
    /\ \E r \in {step(St, 0, rom, drivers, overflow_checks)} :
            /\ SetSt(r.st)
            /\ status' = StatusAfter(r.result)
            /\ last' = Last("descend", r.result, NoSprite, FALSE)
    /\ inst' = decode(FetchWord(St, rom))
    /\ prev' = St
    /\ UNCHANGED <<owner, at, dhist, rom, overflow_checks, drivers, beep, word,
                   steps>>

(* A step past its fetch and decode: execute applied to instr. *)
StackExec(op, instr) ==
    /\ status = "running"
    /\ steps < MaxStackOps
    /\ \E r \in {execute(St, FetchAdvance(St), instr, 0, rom, drivers,
                         overflow_checks)} :
            /\ SetSt(r.st)
            /\ status' = StatusAfter(r.result)
            /\ last' = Last(op, r.result, NoSprite, FALSE)
    /\ inst' = instr
    /\ prev' = St
    /\ steps' = steps + 1
    /\ UNCHANGED <<owner, at, dhist, rom, overflow_checks, drivers, beep, word>>

(* 2NNN *)
StackCall == \E nnn \in CallTargets : StackExec("call", InstNNN("FlowCall", nnn))

(* 00EE *)
StackRet == StackExec("ret", InstNone("FlowRet"))

NextStack ==
    \/ StackDescend
    \/ StackCall
    \/ StackRet

SpecStack == InitStack /\ [][NextStack]_vars

-----------------------------------------------------------------------------

(* One step on drawn operands: the word at 0x200 is decoded and executed  *)
(* on a register file that holds a in V0, b in V1 and 1 in VF.  The poll  *)
(* of the step finds no event or the one key sent before the step.        *)

(* CXNN; 3XNN, 4XNN, 5XY0, 9XY0, EX9E, EXA1; 7XNN; FX29. *)
InstrWords ==
    {49407, 49423} \cup
    {12288, 12416, 12672, 16384, 16512, 20496, 20480, 36880, 36864, 57502,
     57505} \cup
    {28672, 28673, 28927, 28800, 32513, 29056} \cup
    {61481, 61737}

InstrAs == (0..16) \cup {127, 128, 129, 254, 255}

InstrBs == {0, 128, 255}

InitInstr ==
    /\ \E a \in InstrAs, b \in InstrBs, w \in InstrWords, checks \in BOOLEAN :
        NewWith(<<>>, checks, [NewReg EXCEPT ![0] = a, ![1] = b, ![FLAG] = 1], w)
    /\ prev = St

(* The key proxy of main sends one key through its driver before the step. *)
InstrKeySend ==
    /\ last.op = "driver"
    /\ keyq = <<>>
    /\ \E k \in Keys : keyq' = <<k>>
    /\ UNCHANGED <<owner, at, dhist, rom, overflow_checks, ram, pc, stack, sp, reg,
                   i, buffer, changes, pressed_key, drivers, dtime, stime,
                   beep, status, word, inst, steps, last, prev>>

(* Chip8Emu::decode of the fetched word. *)
InstrDecode ==
    /\ last.op \in {"new", "driver"}
    /\ inst' = decode(word)
    /\ last' = Last("decode", "Ok", NoSprite, FALSE)
    /\ UNCHANGED <<owner, at, dhist, rom, overflow_checks, ram, pc, stack, sp, reg,
                   i, buffer, changes, pressed_key, keyq, drivers, dtime,
                   stime, beep, status, word, steps, prev>>

(* Chip8Emu::execute of the decoded instruction, pc being past the word. *)
InstrExecute ==
    /\ last.op = "decode"
    /\ \E rnd \in RndChoices(inst) :
       \E r \in {execute(St, FetchAdvance(St), inst, rnd, rom, drivers,
                         overflow_checks)} :
            /\ SetSt(r.st)
            /\ status' = StatusAfter(r.result)
            /\ last' = Last("execute", r.result, NoSprite, FALSE)
    /\ prev' = St
    /\ steps' = steps + 1
    /\ UNCHANGED <<owner, at, dhist, rom, overflow_checks, drivers, beep, word,
                   inst>>

NextInstr ==
    \/ KeysNewDriver
    \/ InstrKeySend
    \/ InstrDecode
    \/ InstrExecute

SpecInstr == InitInstr /\ [][NextInstr]_vars

-----------------------------------------------------------------------------

(* The decoder.                                                            *)

(* The operand fields each instruction form carries. *)
FormFields(t) ==
    CASE t \in {"Call", "FlowJmp", "FlowCall", "SetPoint", "FlowJmpV0"} -> {"nnn"}
      [] t \in {"CondEqL", "CondNoEqL", "RegConst", "RegAdd", "RNG"} -> {"x", "nn"}
      [] t \in {"CondEqRg", "Assign", "BitOr", "BitAnd", "BitXor", "MathAdd",
                "MathSub", "BitShiftR", "InvertSub", "BitShiftL",
                "CondNoEqRg"} -> {"x", "y"}
      [] t = "DispDraw" -> {"x", "y", "n"}
      [] t \in {"CondKey", "CondNotKey", "DelTimrGet", "WaitKey", "DelTimrSet",
                "SndTimrSet", "PointAdd", "PointChar", "BCDStore", "RegDmp",
                "RegLoad"} -> {"x"}
      [] OTHER -> {}

FieldRange(f) ==
    CASE f = "nnn" -> 0..4095
      [] f = "nn" -> 0..255
      [] OTHER -> 0..15

(* An instruction value: a known form or the halt sentinel, with exactly   *)
(* the operands of its form, each within its width.                        *)
IsInstructionValue(v) ==
    /\ DOMAIN v = {"insttype", "nnn", "nn", "n", "x", "y"}
    /\ v.insttype \in InstructionType
    /\ \A f \in {"nnn", "nn", "n", "x", "y"} :
        IF f \in FormFields(v.insttype) THEN v[f] \in FieldRange(f)
        ELSE v[f] = None

(* C1: decode is total: for every 16-bit word it returns one instruction   *)
(* value, a known form or the halt sentinel, and it never fails.           *)
C1_DecodeTotal ==
    last.op = "decode" => last.ret = "Ok" /\ IsInstructionValue(inst)

C1_Witness ==
    /\ last.op = "decode"
    /\ word = 65535
    /\ inst.insttype = "StopExecution"

(* The register operands of a word 8XY?, read off its digits. *)
DigitX(w) == (w \div 256) % 16

DigitY(w) == (w \div 16) % 16

IsForm8(w, lastDigit) == w \div 4096 = 8 /\ w % 16 = lastDigit

(* C2: every word 8XY7 decodes to the inverted subtract of VX and VY, as   *)
(* every word 8XY5 decodes to the subtract; neither decodes to the halt    *)
(* sentinel.                                                               *)
C2_BothSubtractsDecoded ==
    /\ (last.op = "decode" /\ IsForm8(word, 5)) =>
            inst = Instruction("MathSub", None, None, None,
                               DigitX(word), DigitY(word))
    /\ (last.op = "decode" /\ IsForm8(word, 7)) =>
            inst = Instruction("InvertSub", None, None, None,
                               DigitX(word), DigitY(word))

-----------------------------------------------------------------------------
(* The run loop.                                                           *)

(* C3: once a step has returned failure the loop has stopped: the          *)
(* interpreter is halted, it stays halted, and no later step changes the   *)
(* registers, the program counter, the address pointer, the stack, the     *)
(* memory or the frame buffer.                                             *)
C3_HaltedIsTerminal ==
    [][last.ret = "Err" =>
        /\ status = "halted"
        /\ status' = "halted"
        /\ UNCHANGED <<reg, pc, i, stack, sp, ram, buffer, steps>>]_vars

C3_Witness ==
    /\ status = "halted"
    /\ last.ret = "Err"
    /\ steps < MaxSteps
    /\ steps >= 2

(* A step that fetched a word decoding to the halt sentinel and failed. *)
HaltStep ==
    /\ steps' = steps + 1
    /\ ~FetchPanics(St)
    /\ inst'.insttype = "StopExecution"

(* C4 as stated: a step on the halt sentinel fails and, but for the        *)
(* program counter the fetch advanced, leaves the registers, the address   *)
(* pointer, the stack, the memory, the frame buffer, the timer counters    *)
(* and the keyboard state (current key and pending events) as they were.   *)
C4_HaltNoSideEffects ==
    [][HaltStep =>
        /\ last'.ret = "Err"
        /\ status' = "halted"
        /\ pc' = pc + 2
        /\ UNCHANGED <<reg, i, stack, sp, ram, buffer, dtime, stime,
                       pressed_key, keyq>>]_vars

(* C4 amended: a step on the halt sentinel fails and, but for the program  *)
(* counter the fetch advanced and the keyboard poll every step starts      *)
(* with, has no side effects: the registers, the address pointer, the      *)
(* stack, the memory, the frame buffer and the timer counters are as they  *)
(* were; the poll has taken the oldest pending key event as the current    *)
(* key, or set the no-key sentinel when none was pending.                  *)
C4_HaltOnlyPolls ==
    [][HaltStep =>
        /\ last'.ret = "Err"
        /\ status' = "halted"
        /\ pc' = pc + 2
        /\ UNCHANGED <<reg, i, stack, sp, ram, buffer, dtime, stime>>
        /\ IF keyq = <<>> THEN pressed_key' = NO_KEY /\ keyq' = keyq
           ELSE pressed_key' = keyq[1] /\ keyq' = SubSeq(keyq, 2, Len(keyq))]_vars

C4_Witness ==
    /\ status = "halted"
    /\ inst.insttype = "StopExecution"
    /\ last.ret = "Err"
    /\ pressed_key \in Keys
    /\ keyq # <<>>

-----------------------------------------------------------------------------
(* The register arithmetic.  In the states after ExecuteInst, prev is the  *)
(* machine before the instruction and inst the instruction executed.       *)

Executed(t) ==
    /\ last.op = "execute"
    /\ inst.insttype = t
    /\ inst.x # FLAG

(* C5: add with carry: with a = VX and b = VY and X not the flag register, *)
(* after the instruction VF = 1 iff a + b > 255, else 0, and               *)
(* VX = (a + b) mod 256.                                                   *)
C5_AddWithCarry ==
    Executed("MathAdd") =>
        LET a == prev.reg[inst.x]
            b == prev.reg[inst.y]
        IN  /\ last.ret = "Ok"
            /\ reg[FLAG] = (IF a + b > 255 THEN 1 ELSE 0)
            /\ reg[inst.x] = (a + b) % 256

C5_Witness ==
    /\ Executed("MathAdd")
    /\ inst.x # inst.y
    /\ prev.reg[inst.x] + prev.reg[inst.y] > 255
    /\ prev.reg[FLAG] # 1
    /\ reg[FLAG] = 1

(* C6: subtract: with a = VX and b = VY and X not the flag register, after *)
(* the instruction VF = 1 iff a >= b, else 0, and VX = (a - b) mod 256.    *)
C6_SubtractNoBorrowFlag ==
    Executed("MathSub") =>
        LET a == prev.reg[inst.x]
            b == prev.reg[inst.y]
        IN  /\ last.ret = "Ok"
            /\ reg[FLAG] = (IF a >= b THEN 1 ELSE 0)
            /\ reg[inst.x] = (a - b) % 256

(* C7: inverted subtract: with a = VX and b = VY and X not the flag        *)
(* register, after the instruction VX = (b - a) mod 256 and VF = 1 iff     *)
(* b >= a, else 0.                                                         *)
C7_InvertedSubtract ==
    Executed("InvertSub") =>
        LET a == prev.reg[inst.x]
            b == prev.reg[inst.y]
        IN  /\ last.ret = "Ok"
            /\ reg[FLAG] = (IF b >= a THEN 1 ELSE 0)
            /\ reg[inst.x] = (b - a) % 256

(* C8: shifts: with v = VX and X not the flag register, the right shift    *)
(* sets VF = v & 1 and VX = v >> 1 and the left shift sets                 *)
(* VF = (v >> 7) & 1 and VX = (v << 1) mod 256; the flag comes from the    *)
(* value before the shift, the outcome does not depend on VY, and no       *)
(* register but VX and VF is written.                                      *)
C8_ShiftCapture ==
    /\ Executed("BitShiftR") =>
        LET v == prev.reg[inst.x]
        IN  /\ last.ret = "Ok"
            /\ reg[FLAG] = v % 2
            /\ reg[inst.x] = v \div 2
            /\ \A k \in (0..15) \ {inst.x, FLAG} : reg[k] = prev.reg[k]
    /\ Executed("BitShiftL") =>
        LET v == prev.reg[inst.x]
        IN  /\ last.ret = "Ok"
            /\ reg[FLAG] = (v \div 128) % 2
            /\ reg[inst.x] = (2 * v) % 256
            /\ \A k \in (0..15) \ {inst.x, FLAG} : reg[k] = prev.reg[k]

C8_Witness ==
    /\ Executed("BitShiftL")
    /\ inst.x = 0
    /\ inst.y = 1
    /\ prev.reg[0] >= 128
    /\ prev.reg[1] < 128
    /\ prev.reg[1] # 0
    /\ reg[FLAG] = 1
    /\ reg[1] = prev.reg[1]

-----------------------------------------------------------------------------
(* The display.  Column c of a row is bit 63 - c of its word; a sprite     *)
(* row's most significant bit is its leftmost pixel.                       *)

(* The pixels of one sprite row placed with its left edge at column x that *)
(* fall on the screen. *)
PositionedRow(row, x) ==
    {(ROW_BITS - 1) - (x + c) : c \in {c \in 0..7 : Bit(row, 7 - c) = 1 /\ x + c < ROW_BITS}}

(* The rows of a sprite that fall on the screen. *)
DrawnRows(sprite) ==
    {r \in 0..(Len(sprite.data) - 1) : sprite.y + r < DISPLAY_ROWS}

(* The visible pixels of a sprite, as a frame buffer. *)
VisibleBits(sprite) ==
    [k \in 0..(DISPLAY_ROWS - 1) |->
        IF k - sprite.y \in DrawnRows(sprite)
            THEN PositionedRow(sprite.data[k - sprite.y + 1], sprite.x)
        ELSE {}]

HasVisibleBit(sprite) == \E k \in 0..(DISPLAY_ROWS - 1) : VisibleBits(sprite)[k] # {}

(* C9: sprite round trip: every draw completes; on an all-zero buffer a    *)
(* draw reports no collision and sets exactly the sprite's visible bits;   *)
(* a second draw of the same sprite at the same origin restores the buffer *)
(* to what it was before the first, and after a first draw on an all-zero  *)
(* buffer it reports a collision when the sprite has a visible set bit.    *)
C9_SpriteRoundTrip ==
    [][(last'.op = "draw" /\ steps' = steps + 1) =>
        /\ last'.ret = "Ok"
        /\ buffer = EmptyBuffer =>
            /\ ~last'.updated
            /\ buffer' = VisibleBits(last'.sprite)
        /\ (last.op = "draw" /\ last.sprite = last'.sprite) =>
            /\ buffer' = prev.buffer
            /\ (prev.buffer = EmptyBuffer /\ HasVisibleBit(last.sprite)) =>
                    last'.updated]_vars

(* C10: collision flag: a draw completes and reports a collision iff, for  *)
(* at least one drawn row, the row's content before the draw and the       *)
(* positioned sprite row have a bit in common; after the draw VF is 1 if a *)
(* collision was reported and 0 otherwise.                                 *)
C10_CollisionFlag ==
    last.op = "draw" =>
        /\ last.ret = "Ok"
        /\ last.updated <=>
            \E r \in DrawnRows(last.sprite) :
                prev.buffer[last.sprite.y + r]
                    \cap PositionedRow(last.sprite.data[r + 1], last.sprite.x) # {}
        /\ reg[FLAG] = (IF last.updated THEN 1 ELSE 0)

(* The pixels a sprite of n rows at origin (x, y) may touch in row k: the  *)
(* columns x..x+7 below 64 when k is one of the rows y..y+n-1 below 32.    *)
TouchableBits(sprite, k) ==
    IF k - sprite.y \in DrawnRows(sprite)
        THEN {(ROW_BITS - 1) - (sprite.x + c) :
                c \in {c \in 0..7 : sprite.x + c < ROW_BITS}}
    ELSE {}

(* C11: sprite clipping: for every origin with x and y any byte, draw      *)
(* completes and changes only pixels in the rows y..y+n-1 below 32 and the *)
(* columns x..x+7 below 64; nothing wraps to the opposite edge, so for     *)
(* x >= 64 or y >= 32 the frame buffer is unchanged.                       *)
C11_SpriteClipping ==
    last.op = "draw" =>
        /\ last.ret = "Ok"
        /\ \A k \in 0..(DISPLAY_ROWS - 1) :
            Xor64(buffer[k], prev.buffer[k]) \subseteq TouchableBits(last.sprite, k)
        /\ (last.sprite.x >= ROW_BITS \/ last.sprite.y >= DISPLAY_ROWS) =>
                buffer = prev.buffer

-----------------------------------------------------------------------------
(* The change feed.                                                        *)

(* The byte of the columns x..x+7 of a row: the most significant bit is    *)
(* column x, and a column past 63 gives a zero bit.                        *)
RECURSIVE ColumnsByteFrom(_, _, _)
ColumnsByteFrom(row, x, c) ==
    IF c > 7 THEN 0
    ELSE (IF x + c < ROW_BITS /\ ((ROW_BITS - 1) - (x + c)) \in row
            THEN Pow2(7 - c) ELSE 0)
         + ColumnsByteFrom(row, x, c + 1)

ColumnsByte(row, x) == ColumnsByteFrom(row, x, 0)

(* The payload of the notification of a draw that left the buffer buf:     *)
(* one byte per drawn row, top to bottom.                                  *)
ChangePayload(buf, sprite) ==
    [r \in 1..Cardinality(DrawnRows(sprite)) |->
        ColumnsByte(buf[sprite.y + r - 1], sprite.x)]

(* Every subscriber that still reads got cmd as its newest notification,   *)
(* and exactly that one.                                                   *)
SentToAll(cmd) ==
    /\ DOMAIN changes' = DOMAIN changes
    /\ \A k \in DOMAIN changes :
        changes[k].alive =>
            /\ changes'[k].alive
            /\ changes'[k].q = Append(changes[k].q, cmd)

DrawStep == last'.op = "draw" /\ steps' = steps + 1

ClearStep == last'.op = "clear" /\ steps' = steps + 1

(* C12: change notification payload: each draw completes and sends every   *)
(* registered subscriber exactly one Change carrying the origin and, for   *)
(* each drawn row from the top, the byte of the columns x..x+7 of that row *)
(* after the XOR, the most significant bit being column x and the bits of  *)
(* columns past 63 zero.                                                   *)
C12_ChangePayload ==
    [][DrawStep =>
        /\ last'.ret = "Ok"
        /\ SentToAll(Change(ChangePayload(buffer', last'.sprite),
                            last'.sprite.x, last'.sprite.y))]_vars

(* The subscribers that read before and after a transition. *)
Reading == {k \in DOMAIN changes : changes[k].alive /\ changes'[k].alive}

(* A draw or a clear that completed: the interpreter produced a            *)
(* notification.                                                           *)
Produces == (DrawStep \/ ClearStep) /\ last'.ret = "Ok"

(* The notification is the newest element of the queue of subscriber k,    *)
(* behind all it had.                                                      *)
GotOneMore(k) ==
    /\ Len(changes'[k].q) = Len(changes[k].q) + 1
    /\ SubSeq(changes'[k].q, 1, Len(changes[k].q)) = changes[k].q

Newest(k) == changes'[k].q[Len(changes'[k].q)]

IsNotificationOf(cmd) ==
    IF ClearStep THEN cmd = Clear
    ELSE /\ cmd.cmd = "Change"
         /\ cmd.x = last'.sprite.x
         /\ cmd.y = last'.sprite.y

(* C13: every subscriber receives exactly the notifications produced after *)
(* its subscription, in the order produced: a new subscriber starts with   *)
(* nothing; each notification produced goes, one and the same, to the back *)
(* of the queue of every subscriber, however many there are and however    *)
(* much each has left unread; and a queue changes in no other way than by  *)
(* its subscriber taking the oldest element.                               *)
C13_FeedInOrder ==
    [][/\ DOMAIN changes \subseteq DOMAIN changes'
       /\ \A k \in (DOMAIN changes') \ (DOMAIN changes) :
            changes'[k] = [alive |-> TRUE, q |-> <<>>]
       /\ IF Produces
            THEN /\ \A k \in DOMAIN changes : changes[k].alive => changes'[k].alive
                 /\ \A k \in Reading :
                        /\ GotOneMore(k)
                        /\ IsNotificationOf(Newest(k))
                 /\ \A j, k \in Reading : Newest(j) = Newest(k)
            ELSE \A k \in Reading :
                    \/ changes'[k].q = changes[k].q
                    \/ /\ changes[k].q # <<>>
                       /\ changes'[k].q = Tail(changes[k].q)]_vars

C13_Witness ==
    /\ Len(changes) = 2
    /\ changes[1].alive
    /\ changes[2].alive
    /\ Len(changes[1].q) = 2
    /\ changes[1].q[1].cmd = "Change"
    /\ changes[1].q[2] = Clear
    /\ changes[2].q = <<Clear>>

(* A subscriber has dropped its read side. *)
HasTornDown == \E k \in DOMAIN changes : ~changes[k].alive

(* The buffer with the visible pixels of a sprite flipped, and whether one *)
(* of them was set.                                                        *)
Flipped(buf, sprite) ==
    [k \in 0..(DISPLAY_ROWS - 1) |-> Xor64(buf[k], VisibleBits(sprite)[k])]

Collides(buf, sprite) ==
    \E k \in 0..(DISPLAY_ROWS - 1) : buf[k] \cap VisibleBits(sprite)[k] # {}

(* The origins whose shift amounts fit the row (see C11). *)
ShiftFits(sprite) == sprite.x < 56 + ROW_BITS

(* C14: a torn-down subscriber is not an error: with a subscriber whose    *)
(* read side is dropped, a draw or a clear does not fail; the draw flips   *)
(* the sprite's pixels and returns its collision result, the clear zeroes  *)
(* the buffer; every subscriber that still reads receives the              *)
(* notification, and the torn-down one is left as it is.                   *)
C14_TornDownSubscriber ==
    [][((DrawStep \/ ClearStep) /\ HasTornDown) =>
        /\ last'.ret # "Err"
        /\ status' # "halted"
        /\ (DrawStep /\ ShiftFits(last'.sprite)) =>
            /\ last'.ret = "Ok"
            /\ buffer' = Flipped(buffer, last'.sprite)
            /\ last'.updated = Collides(buffer, last'.sprite)
            /\ reg'[FLAG] = (IF last'.updated THEN 1 ELSE 0)
        /\ ClearStep =>
            /\ last'.ret = "Ok"
            /\ buffer' = EmptyBuffer
        /\ last'.ret = "Ok" =>
            /\ DOMAIN changes' = DOMAIN changes
            /\ \A k \in DOMAIN changes :
                IF changes[k].alive
                    THEN /\ changes'[k].alive
                         /\ GotOneMore(k)
                         /\ IsNotificationOf(Newest(k))
                ELSE changes'[k] = changes[k]]_vars

C14_Witness ==
    /\ Len(changes) = 2
    /\ ~changes[1].alive
    /\ changes[2].alive
    /\ Len(changes[2].q) = 2
    /\ changes[2].q[2].cmd = "Change"
    /\ last.op = "draw"
    /\ last.ret = "Ok"
    /\ last.updated
    /\ reg[FLAG] = 1

(* C15: clear: from any frame-buffer state the clear instruction sets all  *)
(* 32 rows to zero and sends exactly one Clear notification, which carries *)
(* no pixel data, to every registered subscriber; it changes no register,  *)
(* no memory cell, not the program counter, not the address pointer and no *)
(* stack entry.                                                            *)
C15_Clear ==
    [][ClearStep =>
        /\ last'.ret = "Ok"
        /\ \A k \in 0..(DISPLAY_ROWS - 1) : buffer'[k] = {}
        /\ Clear.data = <<>>
        /\ SentToAll(Clear)
        /\ \A k \in DOMAIN changes : ~changes[k].alive => changes'[k] = changes[k]
        /\ UNCHANGED <<reg, ram, pc, i, stack, sp>>]_vars

C15_Witness ==
    /\ last.op = "clear"
    /\ last.ret = "Ok"
    /\ prev.buffer # EmptyBuffer
    /\ buffer = EmptyBuffer
    /\ Len(changes) = 2
    /\ changes[1].alive
    /\ changes[2].alive
    /\ Len(changes[1].q) = 2
    /\ changes[1].q[2] = Clear
    /\ changes[2].q = <<Clear>>
    /\ changes[1].q[1].cmd = "Change"
    /\ steps = 2

-----------------------------------------------------------------------------
(* Registers and memory.                                                   *)

(* The memory, cell by cell.  A cell outside DOMAIN ram has not been       *)
(* written since construction.                                             *)
Cell(a) == MemRead(ram, rom, a)

CellAfter(a) == MemRead(ram', rom, a)

(* No cell but those of S has changed. *)
OnlyCellsChanged(S) ==
    \A a \in ((DOMAIN ram) \cup (DOMAIN ram')) \ S : CellAfter(a) = Cell(a)

BcdStep == last'.op = "bcd" /\ steps' = steps + 1

(* C16: BCD store: for every byte v = VX, with the three cells inside the  *)
(* memory, after the instruction memory[I] = v div 100,                    *)
(* memory[I+1] = (v div 10) mod 10 and memory[I+2] = v mod 10; no other    *)
(* memory cell, no register and not the address pointer changes.           *)
C16_BcdStore ==
    [][(BcdStep /\ i + 2 < MEMORY_SIZE) =>
        LET v == reg[inst'.x]
        IN  /\ last'.ret = "Ok"
            /\ CellAfter(i) = v \div 100
            /\ CellAfter(i + 1) = (v \div 10) % 10
            /\ CellAfter(i + 2) = v % 10
            /\ OnlyCellsChanged({i, i + 1, i + 2})
            /\ UNCHANGED <<reg, i>>]_vars

C16_Witness ==
    /\ last.op = "bcd"
    /\ last.ret = "Ok"
    /\ reg[inst.x] = 234
    /\ i = 4093
    /\ MemRead(ram, rom, i) = 2
    /\ MemRead(ram, rom, i + 1) = 3
    /\ MemRead(ram, rom, i + 2) = 4

DumpStep == last'.op = "dump" /\ steps' = steps + 1

(* The registers zeroed and loaded again, right after a dump that          *)
(* completed; prev is the machine before that dump.                        *)
ReloadStep == last.op = "dump" /\ last.ret = "Ok" /\ last'.op = "reload"

(* C17: register dump and load round trip: for any register file, any X    *)
(* and any I with I + X inside the memory, the dump of the registers       *)
(* 0..=X to I completes, and the load of the registers 0..=X from I into   *)
(* a zeroed register file gives the registers 0..=X their original values  *)
(* and leaves those above X zero; neither instruction changes I.           *)
C17_DumpLoadRoundTrip ==
    [][/\ (DumpStep /\ i + inst'.x < MEMORY_SIZE) =>
            /\ last'.ret = "Ok"
            /\ i' = i
       /\ (ReloadStep /\ inst'.x = inst.x) =>
            /\ last'.ret = "Ok"
            /\ \A k \in 0..15 :
                reg'[k] = (IF k <= inst.x THEN prev.reg[k] ELSE 0)
            /\ i' = prev.i]_vars

C17_Witness ==
    /\ last.op = "reload"
    /\ last.ret = "Ok"
    /\ inst.x = 1
    /\ i = 4080
    /\ reg[0] = 255
    /\ reg[1] = 16
    /\ \A k \in 2..15 : reg[k] = 0
    /\ prev.reg[2] = 33
    /\ DOMAIN ram = {4080, 4081}

-----------------------------------------------------------------------------
(* The clock.                                                              *)

CountedDown(v) == IF v > 0 THEN v - 1 ELSE 0

Takes(t, l) == owner[l] # t /\ owner'[l] = t

Keeps(t, l) == owner[l] = t /\ owner'[l] = t

Returns(t) == at[t] = "locking" /\ at'[t] = "idle"

ClockStep ==
    \/ at'["clock"] # at["clock"]
    \/ \E l \in TimerLocks : Takes("clock", l)

OnlyTimerChanged ==
    /\ <<ram, pc, stack, sp, reg, i, buffer>>' = <<ram, pc, stack, sp, reg, i, buffer>>
    /\ <<changes, pressed_key, keyq, status>>' = <<changes, pressed_key, keyq, status>>

(* C18: a tick counts the delay counter down by one, or leaves it 0, when  *)
(* it takes the counter's lock, and no other thread changes the counter    *)
(* until the tick returns; when it returns it has counted the sound        *)
(* counter down by one, or left it 0, and has set beep to whether the      *)
(* sound counter was above 0; no step of the clock thread raises a counter *)
(* or changes anything but the three fields of the Timer.                  *)
C18_ClockTick ==
    [][/\ Takes("clock", "dtime") =>
            /\ dtime' = CountedDown(dtime)
            /\ stime' = stime /\ beep' = beep
       /\ Keeps("clock", "dtime") => dtime' = dtime
       /\ Keeps("clock", "stime") => stime' = stime /\ beep' = beep
       /\ Returns("clock") =>
            /\ stime' = CountedDown(stime)
            /\ beep' = (stime > 0)
            /\ dtime' = dtime
       /\ ClockStep =>
            /\ dtime' <= dtime /\ stime' <= stime
            /\ dtime' \in 0..255 /\ stime' \in 0..255
            /\ OnlyTimerChanged]_vars

(* The clock is asleep after a tick that found the delay counter at 0,     *)
(* some ticks after the program set it above 0, and the sound counter      *)
(* above 0.                                                                *)
C18_Witness ==
    /\ at["clock"] = "idle"
    /\ dhist.n >= 1
    /\ dhist.ticks > dhist.n
    /\ dtime = 0
    /\ beep

DelayWrite == Returns("emu") /\ inst.insttype = "DelTimrSet"

DelayRead == Returns("emu") /\ inst.insttype = "DelTimrGet"

(* C19: with n the value the interpreter last wrote to the delay counter   *)
(* (0 at construction), once the clock has ticked n or more times since,   *)
(* the counter is 0 and a read of it puts 0 into the register; a read      *)
(* always gives the counter as it is; no step but a write of the           *)
(* interpreter raises the counter; and with the clock thread scheduled     *)
(* fairly the counter is in the end 0 for good.                            *)
C19_DelayFloor ==
    /\ [](dhist.ticks >= dhist.n => dtime = 0)
    /\ [][/\ DelayRead => reg'[inst.x] = dtime
          /\ DelayRead /\ dhist.ticks >= dhist.n => reg'[inst.x] = 0
          /\ ~DelayWrite => dtime' <= dtime]_vars
    /\ <>[](dtime = 0)

(* The interpreter has read 0 from the delay counter that it had set above *)
(* 0, after the clock ticked that many times.                              *)
C19_Witness ==
    /\ at["emu"] = "idle"
    /\ last.op = "timer"
    /\ inst.insttype = "DelTimrGet"
    /\ dhist.n >= 1
    /\ dhist.ticks >= dhist.n
    /\ reg[inst.x] = 0

(* A thread inside lock on a Mutex another thread holds, and that thread. *)
Waiting(t) ==
    /\ at[t] = "locking"
    /\ ~HoldsAll(t)
    /\ owner[NextLock(t)] # "free"

Blocker(t) == owner[NextLock(t)]

(* With three threads, four waiting threads in a row close a circle. *)
WaitsInCircle(t) ==
    /\ Waiting(t)
    /\ Waiting(Blocker(t))
    /\ Waiting(Blocker(Blocker(t)))
    /\ Waiting(Blocker(Blocker(Blocker(t))))

(* C20: the clock thread holds the sound lock only with the delay lock and *)
(* the beep lock only with the sound lock; the interpreter and the bell    *)
(* thread hold at most one lock and lock nothing more while they hold it;  *)
(* a lock has one holder, which is inside the Timer; and no threads wait   *)
(* for each other in a circle: from every waiting thread, the holders lead *)
(* to a thread that can go on.                                             *)
C20_NoTimerDeadlock ==
    /\ owner["stime"] = "clock" => owner["dtime"] = "clock"
    /\ owner["beep"] = "clock" => owner["stime"] = "clock"
    /\ \A t \in {"emu", "bell"} :
            /\ Cardinality(Held(t)) <= 1
            /\ Held(t) # {} => HoldsAll(t)
    /\ \A t \in TimerThreads : Held(t) # {} => at[t] = "locking"
    /\ \A t \in TimerThreads : ~WaitsInCircle(t)

(* The interpreter waits for the delay lock that the clock holds, and the  *)
(* clock, with the delay and the sound lock, waits for the beep lock that  *)
(* the bell thread holds.                                                  *)
C20_Witness ==
    /\ Waiting("emu") /\ Blocker("emu") = "clock"
    /\ Waiting("clock") /\ Blocker("clock") = "bell"
    /\ Held("clock") = {"dtime", "stime"}

(* The claim C21 as written: beep is true only while the sound counter is  *)
(* above 0.                                                                *)
C21_BeepOnlyWhileSounding == beep => stime > 0

(* C21: beep changes only when a tick returns, and the tick sets it to     *)
(* whether the sound counter was above 0 before the tick counted it down;  *)
(* a write of the interpreter to the sound counter leaves beep as it is.   *)
C21_BeepFollowsTick ==
    [][/\ beep' # beep => Returns("clock")
       /\ Returns("clock") => beep' = (stime > 0)
       /\ Returns("emu") => beep' = beep]_vars

(* The clock is asleep after the tick that counted the sound counter down  *)
(* from 1: beep is true and the counter is 0.                              *)
C21_Witness ==
    /\ at["clock"] = "idle"
    /\ beep
    /\ stime = 0
    /\ dhist.ticks >= 1

-----------------------------------------------------------------------------
(* The keyboard.                                                           *)

PollStep == last'.op = "poll" /\ steps' = steps + 1

(* The event produced last among those pending. *)
NewestEvent(q) == q[Len(q)]

(* C22: a poll does not block, takes at most one event from the queue, and *)
(* makes the current key the event produced last among the pending ones,   *)
(* or the sentinel when none is pending.                                   *)
C22_PollTakesNewest ==
    [][PollStep =>
        /\ status' # "blocked"
        /\ Len(keyq') >= Len(keyq) - 1
        /\ pressed_key' = IF keyq = <<>> THEN NO_KEY ELSE NewestEvent(keyq)]_vars

(* The arm of the instruction starts, after the poll. *)
ArmStep == last.op = "poll" /\ last'.op \in {"arm", "wait"}

WaitArmStep == ArmStep /\ inst.insttype = "WaitKey"

(* C23: when the current key is a key code 0..15 as the arm of FX0A calls  *)
(* wait_for_key, the wait returns that code at once: the step does not     *)
(* block, VX holds the code, and no further event is taken from the queue. *)
C23_WaitReturnsPressedKey ==
    [][WaitArmStep /\ pressed_key \in 0..15 =>
        /\ status' = "running"
        /\ reg'[inst.x] = pressed_key
        /\ pressed_key' = pressed_key
        /\ keyq' = keyq]_vars

(* The recv of a wait_for_key that blocked returns. *)
WakeStep == status = "blocked" /\ status' # "blocked"

(* The call returns the event e: VX and the current key hold it, it is off *)
(* the queue, and no other register changed.                               *)
ReturnsEvent(e) ==
    /\ status' = "running"
    /\ reg' = [reg EXCEPT ![inst.x] = e]
    /\ pressed_key' = e
    /\ keyq' = Tail(keyq)

(* C24: when no key is pressed as the arm of FX0A calls wait_for_key, the  *)
(* call blocks while no event is pending and changes nothing; it stays     *)
(* blocked until the producer has sent an event; and it returns with the   *)
(* first event sent, which becomes the current key and the value of VX.    *)
C24_BlockingWait ==
    [][/\ WaitArmStep /\ pressed_key = NO_KEY /\ keyq = <<>> =>
            /\ status' = "blocked"
            /\ reg' = reg /\ pressed_key' = pressed_key /\ keyq' = keyq
       /\ WaitArmStep /\ pressed_key = NO_KEY /\ keyq # <<>> =>
            ReturnsEvent(Head(keyq))
       /\ status = "blocked" /\ keyq = <<>> => status' = "blocked"
       /\ WakeStep /\ pressed_key = NO_KEY =>
            keyq # <<>> /\ ReturnsEvent(Head(keyq))]_vars

(* FX0A was called with no key pressed and no event pending, blocked, and  *)
(* has returned with the key 5 that the producer sent then.                *)
C24_Witness ==
    /\ last.op = "woke"
    /\ last.ret = "Ok"
    /\ prev.keyq = <<>>
    /\ inst.insttype = "WaitKey"
    /\ reg[inst.x] = 5
    /\ pressed_key = 5

(* C25: every step polls the keyboard before it runs the arm of its        *)
(* instruction, FX0A included, and takes at most one event from the queue: *)
(* the poll takes the head event or none, and a step whose poll took an    *)
(* event takes no other one in its arm.                                    *)
C25_OneEventPerStep ==
    [][/\ PollStep =>
            /\ pressed_key' = IF keyq = <<>> THEN NO_KEY ELSE Head(keyq)
            /\ keyq' = IF keyq = <<>> THEN keyq ELSE Tail(keyq)
       /\ ArmStep \/ WakeStep =>
            /\ Len(keyq') >= Len(keyq) - 1
            /\ pressed_key # NO_KEY => keyq' = keyq]_vars

(* The driver that main took has been dropped and nothing it sent is left. *)
TornDown == last.op # "new" /\ drivers = 0 /\ keyq = <<>>

(* C26: once every driver has been dropped, the poll of the next step      *)
(* fails and the interpreter halts, and a wait_for_key called then fails   *)
(* and halts it instead of blocking.                                       *)
C26_TornChannelHalts ==
    [][/\ PollStep /\ TornDown => status' = "halted"
       /\ WaitArmStep /\ TornDown => status' = "halted"]_vars

-----------------------------------------------------------------------------
(* The fetch and the call stack.                                           *)

(* A pass of the loop of run, whose fetch finds pc and pc + 1 in memory. *)
StepTaken == steps' = steps + 1 /\ status' # "panicked"

(* The arms of execute that assign pc. *)
FlowTypes ==
    {"FlowRet", "FlowJmp", "FlowCall", "FlowJmpV0", "CondEqL", "CondNoEqL",
     "CondEqRg", "CondNoEqRg", "CondKey", "CondNotKey"}

SkipTypes ==
    {"CondEqL", "CondNoEqL", "CondEqRg", "CondNoEqRg", "CondKey", "CondNotKey"}

(* C27: a step whose pc and pc + 1 are cells of the memory forms its word  *)
(* with the byte at pc as the high half and the byte at pc + 1 as the low  *)
(* half and decodes that word; pc is 2 further when the arm runs: it is    *)
(* pc + 2 after an arm that does not assign pc, also after one that        *)
(* failed or blocked, pc + 2 or pc + 4 after a skip, and pc + 2 is the     *)
(* address a call saves.                                                   *)
C27_Fetch ==
    [][StepTaken /\ pc + 1 < MEMORY_SIZE =>
        /\ word' \div 256 = MemRead(ram, rom, pc)
        /\ word' % 256 = MemRead(ram, rom, pc + 1)
        /\ inst' = decode(word')
        /\ inst'.insttype \notin FlowTypes => pc' = pc + 2
        /\ inst'.insttype \in SkipTypes => pc' \in {pc + 2, pc + 4}
        /\ inst'.insttype = "FlowCall" => stack'[sp] = pc + 2]_vars

(* The step at 0x202 fetched FFFF and failed, and pc is 0x204. *)
C27_Witness ==
    /\ status = "halted"
    /\ last.ret = "Err"
    /\ word = 65535
    /\ inst.insttype = "StopExecution"
    /\ pc = 516

DidCall == last.op = "call" /\ last.ret = "Ok"

DidRet == last.op = "ret" /\ last.ret = "Ok"

SlotsBut(k) == (DOMAIN stack) \ {k}

(* C28: a call at A to NNN has put A + 2 into the slot at the stack        *)
(* pointer, raised the pointer by one and set pc to NNN; a return has      *)
(* lowered the pointer by one, set pc to the address in the slot there and *)
(* zeroed that slot; neither changes another slot; and after a call and    *)
(* its return the pointer and every slot of the stack are as before the    *)
(* call and pc is A + 2.                                                   *)
C28_CallReturn ==
    /\ [](DidCall =>
            /\ stack[prev.sp] = prev.pc + 2
            /\ sp = prev.sp + 1
            /\ pc = inst.nnn
            /\ \A k \in SlotsBut(prev.sp) : stack[k] = prev.stack[k])
    /\ [](DidRet =>
            /\ sp = prev.sp - 1
            /\ pc = prev.stack[sp]
            /\ stack[sp] = 0
            /\ \A k \in SlotsBut(sp) : stack[k] = prev.stack[k])
    /\ [][DidCall /\ last'.op = "ret" /\ last'.ret = "Ok" =>
            /\ sp' = prev.sp
            /\ pc' = prev.pc + 2
            /\ stack' = prev.stack]_vars

(* A call from 0x200 to 0x2A0 at depth 1 has returned: pc is 0x202, the    *)
(* pointer is 1 again and the slot above it is zero.                       *)
C28_Witness ==
    /\ DidRet
    /\ prev.pc = 672
    /\ pc = 514
    /\ sp = 1
    /\ stack[1] = 0
    /\ stack[0] = 514

CallStep == last'.op = "call" /\ steps' = steps + 1

RetStep == last'.op = "ret" /\ steps' = steps + 1

(* C29: the stack pointer is between 0 and the size of the stack, and      *)
(* every call and every return finds its slot inside the stack and         *)
(* completes: a call the slot at the pointer, a return the slot below it.  *)
C29_StackInBounds ==
    /\ [](sp \in 0..STACK_SIZE)
    /\ [][/\ CallStep => sp \in DOMAIN stack /\ status' # "panicked"
          /\ RetStep => sp - 1 \in DOMAIN stack /\ status' # "panicked"]_vars

-----------------------------------------------------------------------------
(* The construction.                                                       *)

(* The interpreter has not run a step since Chip8Emu::new. *)
AtConstruction == last.op = "new" /\ steps = 0

(* The byte the claim puts at address a. *)
ClaimedCell(a) ==
    IF a \in 80..159 THEN DEFAULT_FONTPACK[a - 79]
    ELSE IF a \in 512..4095 THEN RomByte(rom, a - 512)
    ELSE 0

(* C30: after construction the memory holds the 80 bytes of the font at    *)
(* 0x050..0x09F, the 3584 bytes of the image at 0x200..0xFFF and zero in   *)
(* every other cell; pc is 0x200, the stack pointer, the registers, the    *)
(* address pointer and both counters are 0, beep is false, the current key *)
(* is the sentinel 0x10 and every row of the frame buffer is empty.        *)
C30_InitialState ==
    AtConstruction =>
        /\ Len(DEFAULT_FONTPACK) = 80
        /\ \A a \in 0..4095 : MemRead(ram, rom, a) = ClaimedCell(a)
        /\ pc = 512
        /\ sp = 0
        /\ \A k \in 0..15 : reg[k] = 0
        /\ i = 0
        /\ dtime = 0 /\ stime = 0
        /\ ~beep
        /\ pressed_key = 16
        /\ \A r \in 0..31 : buffer[r] = {}
        /\ \A k \in DOMAIN stack : stack[k] = 0

(* The machine as constructed from the image 60FF 6102 ..: the first glyph *)
(* of the font starts at 0x050 and the first word of the image at 0x200.   *)
C30_Witness ==
    /\ AtConstruction
    /\ MemRead(ram, rom, 80) = 240
    /\ MemRead(ram, rom, 159) = 128
    /\ MemRead(ram, rom, 512) = 96
    /\ MemRead(ram, rom, 513) = 255
    /\ MemRead(ram, rom, 4095) = 0


-----------------------------------------------------------------------------
(* Single instructions on drawn operands. *)

(* The instruction was decoded and its arm has not run. *)
Decoded(types) == last.op = "decode" /\ inst.insttype \in types

(* The arm of an instruction of one of the types has just run. *)
ArmRan(types) == last.op = "execute" /\ inst.insttype \in types

(* The register files the arm of the decoded instruction can leave. *)
ArmRegs ==
    {execute(St, FetchAdvance(St), inst, rnd, rom, drivers,
             overflow_checks).st.reg : rnd \in RndChoices(inst)}

(* C31: the random instruction CXNN can leave in VX every value r AND NN   *)
(* of a byte r in 0..255 and no other value, and it changes no register    *)
(* but VX.                                                                  *)
C31_RandomByte ==
    Decoded({"RNG"}) =>
        /\ {r[inst.x] : r \in ArmRegs} = {And8(b, inst.nn) : b \in 0..255}
        /\ \A r \in ArmRegs : \A k \in (0..15) \ {inst.x} : r[k] = reg[k]


(* The condition of the decoded skip on the registers before the arm and  *)
(* the key the poll of this step left as the current key.                  *)
SkipCondition ==
    LET x == prev.reg[inst.x]
    IN  CASE inst.insttype = "CondEqL"    -> x = inst.nn
          [] inst.insttype = "CondNoEqL"  -> x # inst.nn
          [] inst.insttype = "CondEqRg"   -> x = prev.reg[inst.y]
          [] inst.insttype = "CondNoEqRg" -> x # prev.reg[inst.y]
          [] inst.insttype = "CondKey"    -> pressed_key = x
          [] inst.insttype = "CondNotKey" -> pressed_key # x

(* C32: a skip leaves pc 4 past its own address iff its condition holds   *)
(* and 2 past it otherwise, and changes no register, memory cell, address *)
(* pointer or stack entry.                                                 *)
C32_ConditionalSkips ==
    ArmRan(SkipTypes) =>
        /\ last.ret = "Ok"
        /\ pc = prev.pc + (IF SkipCondition THEN 4 ELSE 2)
        /\ reg = prev.reg
        /\ ram = prev.ram
        /\ i = prev.i
        /\ stack = prev.stack
        /\ sp = prev.sp

C32_Witness ==
    /\ ArmRan({"CondKey"})
    /\ pressed_key \in Keys
    /\ pc = prev.pc + 4


(* C33: 7XNN completes for all bytes a = VX and NN and leaves              *)
(* (a + NN) mod 256 in VX, also when a + NN > 255; every other register,   *)
(* the flag register included, is unchanged.                               *)
C33_AddLiteral ==
    ArmRan({"RegAdd"}) =>
        /\ last.ret = "Ok"
        /\ reg[inst.x] = (prev.reg[inst.x] + inst.nn) % 256
        /\ \A k \in (0..15) \ {inst.x} : reg[k] = prev.reg[k]


-----------------------------------------------------------------------------
(* The decode table. *)

(* The word matches one of the patterns of the standard opcode table:     *)
(* 0NNN (with 00E0 and 00EE), 1NNN, 2NNN, 3XNN, 4XNN, 5XY0, 6XNN, 7XNN,    *)
(* 8XY0-8XY7, 8XYE, 9XY0, ANNN, BNNN, CXNN, DXYN, EX9E, EXA1, FX07, FX0A,  *)
(* FX15, FX18, FX1E, FX29, FX33, FX55, FX65.                               *)
StandardPattern(w) ==
    LET family == w \div 4096
        low    == w % 256
        last1  == w % 16
    IN  \/ family \in {0, 1, 2, 3, 4, 6, 7, 10, 11, 12, 13}
        \/ family \in {5, 9} /\ last1 = 0
        \/ family = 8 /\ last1 \in (0..7) \cup {14}
        \/ family = 14 /\ low \in {158, 161}
        \/ family = 15 /\ low \in {7, 10, 21, 24, 30, 41, 51, 85, 101}

(* The field of a word, read off its bits. *)
WordField(f, w) ==
    CASE f = "nnn" -> w % 4096
      [] f = "nn"  -> w % 256
      [] f = "n"   -> w % 16
      [] f = "x"   -> DigitX(w)
      [] f = "y"   -> DigitY(w)

(* C34: the operands of a decoded non-halt form are the fields of the     *)
(* word, and a word decodes to the halt sentinel exactly when it matches   *)
(* none of the standard patterns.                                          *)
C34_DecodeTable ==
    last.op = "decode" =>
        /\ \A f \in FormFields(inst.insttype) : inst[f] = WordField(f, word)
        /\ inst.insttype = "StopExecution" <=> ~StandardPattern(word)


-----------------------------------------------------------------------------
(* The font. *)

(* Byte k of glyph d of the built-in font. *)
GlyphByte(d, k) == DEFAULT_FONTPACK[5 * d + k + 1]

(* The program has written no cell of 0x050..0x09F. *)
FontUntouched == \A a \in DOMAIN ram : a \notin 80..159

(* C35: FX29 with a digit d in 0..15 in VX sets the address pointer to    *)
(* 0x050 + 5 * d, and while no cell of 0x050..0x09F was written the five   *)
(* bytes at that address are the five bytes of glyph d.                    *)
C35_PointerToGlyph ==
    (ArmRan({"PointChar"}) /\ prev.reg[inst.x] \in 0..15) =>
        LET d == prev.reg[inst.x]
        IN  /\ last.ret = "Ok"
            /\ i = 80 + 5 * d
            /\ FontUntouched =>
                \A k \in 0..4 : MemRead(ram, rom, i + k) = GlyphByte(d, k)

C35_Witness ==
    /\ ArmRan({"PointChar"})
    /\ prev.reg[inst.x] = 15
    /\ i = 155
    /\ MemRead(ram, rom, 155) = 240
    /\ MemRead(ram, rom, 159) = 128


-----------------------------------------------------------------------------
(* The counters between the interpreter and the clock. *)

Floor0(v) == IF v > 0 THEN v ELSE 0

(* The delay counter a write of dhist.n leaves after the ticks since. *)
DelayAfterTicks == Floor0(dhist.n - dhist.ticks)

SoundAfterTicks == Floor0(dhist.sn - dhist.sticks)

(* C36: with V the value last written to a counter (0 at construction)    *)
(* and k the ticks completed since, the counter is max(0, V - k) whenever  *)
(* no tick holds its lock; a tick that holds the delay counter's lock has  *)
(* counted it down once more and completes with that value; and a read of  *)
(* the delay counter puts max(0, V - k) in the register: the value before  *)
(* a tick that has begun and not yet locked the counter, the value after   *)
(* every tick that has.                                                    *)
C36_TimerAccessAtomic ==
    /\ [](/\ owner["dtime"] # "clock" => dtime = DelayAfterTicks
          /\ owner["dtime"] = "clock" => dtime = Floor0(dhist.n - dhist.ticks - 1)
          /\ stime = SoundAfterTicks)
    /\ [][/\ DelayRead => reg'[inst.x] = DelayAfterTicks
          /\ Returns("emu") /\ inst.insttype = "DelTimrSet" =>
                dtime' = reg[inst.x] /\ dtime' = DelayAfterTicks'
          /\ Returns("emu") /\ inst.insttype = "SndTimrSet" =>
                stime' = reg[inst.x] /\ stime' = SoundAfterTicks']_vars

(* The interpreter wrote 3, a tick completed, and its read got 2 while the *)
(* next tick had begun.                                                    *)
C36_Witness ==
    /\ at["emu"] = "idle"
    /\ last.op = "timer"
    /\ inst.insttype = "DelTimrGet"
    /\ at["clock"] = "locking"
    /\ owner["dtime"] = "free"
    /\ dhist.n = 3
    /\ dhist.ticks = 1
    /\ reg[inst.x] = 2


-----------------------------------------------------------------------------
(* The cells a step addresses. *)

FetchCells == {pc, pc + 1}

(* The cells the arm of the instruction addresses through the pointer. *)
ArmCells(instr) ==
    CASE instr.insttype = "DispDraw" -> {i + k : k \in 0..(instr.n - 1)}
      [] instr.insttype = "BCDStore" -> {i, i + 1, i + 2}
      [] instr.insttype \in {"RegDmp", "RegLoad"} -> {i + k : k \in 0..instr.x}
      [] OTHER -> {}

StepCells ==
    FetchCells \cup
        (IF FetchCells \subseteq 0..(MEMORY_SIZE - 1)
            THEN ArmCells(decode(FetchWord(St, rom))) ELSE {})

(* C37: every cell a step addresses, in its fetch at pc and pc + 1 and in *)
(* its sprite read, BCD write, register dump or load through the pointer, *)
(* is a cell of 0x000..0xFFF, and pc and the pointer stay within 16 bits. *)
C37_AccessesInMemory ==
    [][steps' = steps + 1 =>
        /\ StepCells \subseteq 0..(MEMORY_SIZE - 1)
        /\ pc' \in 0..65535
        /\ i' \in 0..65535]_vars


-----------------------------------------------------------------------------
(* The failures of a step. *)

(* C38: a step that fetched its word returns failure exactly when the     *)
(* word decodes to the halt sentinel: every operand the arm of a decoded   *)
(* instruction reads is present, the keyboard poll does not fail whatever  *)
(* the drivers do, a draw and a wait for a key that returns do not fail,   *)
(* and the run loop has halted only on the sentinel.                       *)
C38_OnlyHaltFails ==
    /\ [](/\ recieve_key(pressed_key, keyq, drivers).result = "Ok"
          /\ status = "halted" =>
                inst.insttype = "StopExecution" /\ last.ret = "Err")
    /\ [][/\ steps' = steps + 1 /\ ~FetchPanics(St) =>
                LET instr == decode(FetchWord(St, rom))
                IN  /\ ~MissingOperand(instr)
                    /\ last'.ret = "Err" <=> instr.insttype = "StopExecution"
          /\ status = "blocked" /\ status' # "blocked" => last'.ret = "Ok"]_vars

(* A program drew twice, cleared the screen and halted on FFFF, with no   *)
(* driver of the keyboard ever taken.                                      *)
C38_Witness ==
    /\ status = "halted"
    /\ last.ret = "Err"
    /\ inst.insttype = "StopExecution"
    /\ steps = 5
    /\ i = 80
    /\ drivers = 0


-----------------------------------------------------------------------------
(* The current key from step to step. *)

(* The poll of the step in progress took the event k off the queue. *)
PollConsumed(k) == prev.keyq # <<>> /\ Head(prev.keyq) = k

(* C39: the poll of a step makes the oldest pending event the current key *)
(* and takes it off the queue, or makes the sentinel the current key when  *)
(* none is pending, whatever the current key was in the step before; the   *)
(* arm of the step runs with that key, which no arm but the wait for a key *)
(* changes; and the skip on a pressed key is taken exactly when the poll   *)
(* of its own step consumed an event equal to VX.                          *)
C39_KeyLastsOneStep ==
    [][/\ PollStep =>
            /\ keyq # <<>> => pressed_key' = Head(keyq) /\ keyq' = Tail(keyq)
            /\ keyq = <<>> => pressed_key' = NO_KEY /\ keyq' = keyq
       /\ ArmStep =>
            /\ pressed_key = IF prev.keyq = <<>> THEN NO_KEY ELSE Head(prev.keyq)
            /\ inst.insttype # "WaitKey" => pressed_key' = pressed_key
            /\ inst.insttype = "CondKey" =>
                    /\ reg[inst.x] \in 0..15
                    /\ pc' = pc + 2 <=> PollConsumed(reg[inst.x])
                    /\ pc' \in {pc, pc + 2}]_vars

(* Key 0 was the current key of the step before; no event was pending at   *)
(* this step's poll and the current key is the sentinel.                   *)
C39_Witness ==
    /\ last.op = "poll"
    /\ steps >= 2
    /\ prev.pressed_key = 0
    /\ prev.keyq = <<>>
    /\ pressed_key = NO_KEY


-----------------------------------------------------------------------------
(* The flag register as the destination. *)

(* The flag of the instruction for a = VX and b = VY: carry, no borrow,    *)
(* or the bit shifted out.                                                 *)
FlagFor(t, a, b) ==
    CASE t = "MathAdd"   -> IF a + b > 255 THEN 1 ELSE 0
      [] t = "MathSub"   -> IF a >= b THEN 1 ELSE 0
      [] t = "InvertSub" -> IF b >= a THEN 1 ELSE 0
      [] t = "BitShiftR" -> a % 2
      [] t = "BitShiftL" -> a \div 128

(* C40: after add with carry, subtract, inverted subtract or a shift with  *)
(* X = F, VF is the flag, 0 or 1, computed from the values VX and VY held  *)
(* before the instruction.                                                 *)
C40_FlagAsDestination ==
    (last.op = "execute" /\ inst.insttype \in ExecTypes /\ inst.x = FLAG) =>
        /\ last.ret = "Ok"
        /\ reg[FLAG] \in {0, 1}
        /\ reg[FLAG] = FlagFor(inst.insttype, prev.reg[FLAG], prev.reg[inst.y])
====
